---- MODULE Spec2Model ----
(***************************************************************************)
(* A model of fault_injector: DataFrameFault, which assigns fault          *)
(* generators to columns (assign_fault) and generates the fault dataframe  *)
(* (generate_faults), with the parameter resolution, instantiation, reuse, *)
(* combination and metadata code of DfUtils; the generators of fault_lib   *)
(* used on their own; the Injector that applies a fault to a window of an  *)
(* array; the DataFrameInjector, which writes a frame of faults into a     *)
(* range of rows of a frame; and FaultInjection, which adds faults to a    *)
(* window of a list of numbers.                                            *)
(*                                                                         *)
(* Encoding of Python values:                                              *)
(*   None            the string "None" (optional bool / str), the length 0 *)
(*                   (optional int: the code tests it with `or`, and where *)
(*                   it uses it as a number, range(None) or L > None, the  *)
(*                   model raises TypeError), the records NoneObj (no      *)
(*                   generator), NoDf (no frame), NoValues (no values)     *)
(*   a parameter     [list |-> FALSE, v |-> <<x>>] for the scalar x,       *)
(*                   [list |-> TRUE,  v |-> s]     for the list s          *)
(*   a dict          a function on its keys                                *)
(*   a numpy array   a sequence; np.mean's floats are exact fractions;     *)
(*                   where its type matters, [type |-> "ndarray", v |-> s] *)
(*   a length        [int |-> TRUE, n |-> k] for the int k, int |-> FALSE  *)
(*                   for the float k.0                                     *)
(***************************************************************************)
EXTENDS Integers, Sequences, FiniteSets, TLC

\* Bounds of the model: the largest df_length, and the number of assign_fault
\* and generate_faults calls in a behaviour.
MaxDfLength == 3
MaxAssigns == 3
MaxCalls == 2

\* The number of operations on a generator used on its own.
MaxOps == 4

\* The longest array given to an Injector.
MaxLen == 3

\* The number of inject_faults calls on a DataFrameInjector, and of inject_drift
\* calls on a FaultInjection.
MaxInjects == 2

VARIABLES
    horizontal, fault_length, df_length, repeat, multi_fault, combine_mode,
    persist_state, include_individual_faults,
                        \* the constructor's arguments, fixed afterwards
    col_names,          \* list of column names
    faults,             \* column name -> list of assignment records
    df_final,           \* the frame built by the last completed generation
    df_extended,        \* the frame of the individual components, or NoDf
    metadata,           \* the dictionary built by the last completed generation
    pc,                 \* "idle", or "run" inside generate_faults after the reset
    ri, ci, ai,         \* inside generate_faults: position of the loops over
                        \* row_indices, col_names and the column's assignments
    row_components,     \* outputs of the assignments run so far for this cell
    col_outputs,        \* column name -> combined arrays of the rows done so far
    extended_components,\* column name -> per assignment, its outputs of the rows done
    user_obj,           \* the caller's own ready generator instance
    restored,           \* result of the last from_metadata call
    fault,              \* a generator the caller uses on its own, NoneObj before
                        \* it is constructed
    values,             \* what the last operation on fault returned
    injector,           \* an Injector: its fault, start and stop; NoneObj before
                        \* it is constructed
    caller_x,           \* the array the caller passed to inject_fault, as it is
                        \* after the call
    injected,           \* the array inject_fault returned
    df_injector,        \* a DataFrameInjector: original_df, df and horizontal;
                        \* NoneObj before it is constructed
    inject_ret,         \* the frame the last inject_faults call returned
    fault_injection,    \* a FaultInjection object; NoneObj before it is constructed
    err,                \* exception raised by the last operation, or "None"
    ret,                \* frame returned by the last operation, NoDf if it returned none
    hist,               \* history: per assignment, generate_faults calls completed /
                        \* aborted since it was registered
    faults0,            \* history: faults as the current or last generate_faults
                        \* call found them after its reset
    n_assign, n_gen,    \* history: operations performed so far
    last_op,            \* history: the last operation on fault and its arguments
    since_reset,        \* history: sum of the lengths of the calls of fault that
                        \* returned since its construction or last reset()
    n_ops,              \* history: operations on fault performed so far
    passed_x,           \* history: the array as it was passed to inject_fault
    inject_args,        \* history: the arguments of the last inject_faults call
    fi_args,            \* history: the last operation on fault_injection
    n_inject            \* history: inject_faults / inject_drift calls so far

vars == <<horizontal, fault_length, df_length, repeat, multi_fault, combine_mode,
          persist_state, include_individual_faults, col_names, faults, df_final,
          df_extended, metadata, pc, ri, ci, ai, row_components, col_outputs,
          extended_components, user_obj, restored, err, ret, hist, faults0,
          n_assign, n_gen, fault, values, last_op, since_reset, n_ops,
          injector, caller_x, injected, passed_x, df_injector, inject_ret,
          fault_injection, inject_args, fi_args,
          n_inject>>

config == <<horizontal, fault_length, df_length, repeat, multi_fault, combine_mode,
            persist_state, include_individual_faults>>

loops == <<ri, ci, ai, row_components, col_outputs, extended_components>>

\* What generate_faults publishes when it completes.
results == <<df_final, df_extended, metadata>>

\* State outside the DataFrameFault.
generator == <<fault, values, last_op, since_reset, n_ops>>
injection == <<injector, caller_x, injected, passed_x>>
frame_injection == <<df_injector, inject_ret, inject_args>>
series_injection == <<fault_injection, fi_args>>
outside == <<restored, generator, injection, frame_injection, series_injection, n_inject>>

\* The injecting classes.
injectors == <<injection, frame_injection, series_injection, n_inject>>

\* The DataFrameFault and its histories, err and ret aside.
dataframe_fault == <<config, col_names, faults, results, pc, loops, user_obj, hist,
                     faults0, n_assign, n_gen>>

----------------------------------------------------------------------------
\* Values.

NoRow == -1
NoneObj == [cls |-> "None"]
NoParams == <<>>
NoType == [kind |-> "None"]
NoDf == [kind |-> "None"]

\* np.nan, as a value no generator parameter of the model takes.
nan == -99

NoMetadata == [kind |-> "empty"]
NotRestored == [err |-> "None", val |-> [kind |-> "None"]]

\* A fault_type: a class, a registry name, or the caller's ready instance.
Class(name) == [kind |-> "class", cls |-> name]
Name(str) == [kind |-> "str", name |-> str]
Ready == [kind |-> "instance"]
Scalar(x) == [list |-> FALSE, v |-> <<x>>]
List(s) == [list |-> TRUE, v |-> s]

\* fault_values: None, a numpy array or a Python list; a tuple stands for any
\* other type.
NoValues == [type |-> "None", v |-> <<>>]
Array(v) == [type |-> "ndarray", v |-> v]
PyList(v) == [type |-> "list", v |-> v]
PyTuple(v) == [type |-> "tuple", v |-> v]

\* A fault_length argument: the int n, or the float n.0.
PyInt(n) == [int |-> TRUE, n |-> n]
PyFloat(n) == [int |-> FALSE, n |-> n]

\* An optional argument: None, or the value v.
PyNone == [none |-> TRUE]
Some(v) == [none |-> FALSE, v |-> v]

Ok(x) == [err |-> "None", val |-> x]
Raise(e) == [err |-> e, val |-> 0]

Max(a, b) == IF a >= b THEN a ELSE b
Min(a, b) == IF a <= b THEN a ELSE b

RECURSIVE Gcd(_, _)
Gcd(a, b) == IF b = 0 THEN a ELSE Gcd(b, a % b)

Abs(x) == IF x < 0 THEN -x ELSE x

\* The exact value num/den of a float, in lowest terms.
Frac(num, den) ==
    LET g == Gcd(Abs(num), den)
    IN  [num |-> num \div g, den |-> den \div g]

RECURSIVE SumAt(_, _, _)
SumAt(arrs, j, k) ==
    IF k = 0 THEN 0 ELSE SumAt(arrs, j, k - 1) + arrs[k][j]

----------------------------------------------------------------------------
\* DfUtils: parameter resolution, instantiation, combination.

_is_scalar_param(v) == ~v.list

_resolve_param_cycling(param, n, row_idx, horiz, rep) ==
    IF _is_scalar_param(param) THEN Ok(param.v[1])
    ELSE IF Len(param.v) = 0 \/ Len(param.v) > n THEN Raise("ValueError")
    ELSE IF Len(param.v) = 1 THEN Ok(param.v[1])
    ELSE IF ~horiz \/ row_idx = NoRow
    THEN IF Len(param.v) < n /\ rep THEN Ok(param.v[Len(param.v)]) ELSE Raise("ValueError")
    ELSE IF Len(param.v) = n \/ rep THEN Ok(param.v[(row_idx % Len(param.v)) + 1])
    ELSE Raise("ValueError")

_resolve_param_lenient(param, n, row_idx, horiz, rep) ==
    IF _is_scalar_param(param) THEN Ok(param.v[1])
    ELSE IF Len(param.v) = 0 \/ Len(param.v) > n THEN Raise("ValueError")
    ELSE IF horiz /\ row_idx # NoRow /\ row_idx < Len(param.v) THEN Ok(param.v[row_idx + 1])
    ELSE Ok(param.v[Len(param.v)])

_resolve_param(param, n, row_idx, horiz, rep) ==
    IF _is_scalar_param(param) THEN Ok(param.v[1])
    ELSE
        LET seq == param.v
            L == Len(seq)
        IN  IF L = 0 THEN Raise("ValueError")
            ELSE IF L = 1 THEN Ok(seq[1])
            ELSE IF n = 0 THEN Raise("TypeError")      \* L > None
            ELSE IF L > n THEN Raise("ValueError")
            ELSE IF L = n THEN
                IF horiz
                THEN IF row_idx = NoRow THEN Raise("ValueError")
                     ELSE Ok(seq[row_idx + 1])
                ELSE Raise("ValueError")
            ELSE IF rep THEN
                IF horiz /\ row_idx # NoRow /\ row_idx < L
                THEN Ok(seq[row_idx + 1])
                ELSE Ok(seq[L])
            ELSE Raise("ValueError")

\* DriftFault.__init__ / StuckValueFault.__init__ through cls(**params).
NewDriftFault(params) ==
    IF "drift_rate" \in DOMAIN params /\ DOMAIN params \subseteq {"drift_rate", "continuous"}
    THEN Ok([cls |-> "DriftFault",
             id |-> "own",
             fault_values |-> NoValues,
             fault_length |-> 0,
             drift_rate |-> params["drift_rate"],
             prior |-> 0,
             continuous |-> IF "continuous" \in DOMAIN params
                            THEN params["continuous"] ELSE FALSE])
    ELSE Raise("TypeError")

NewStuckValueFault(params) ==
    IF DOMAIN params = {"stuck_val"}
    THEN Ok([cls |-> "StuckValueFault", id |-> "own",
             fault_values |-> NoValues, fault_length |-> 0,
             stuck_val |-> params["stuck_val"]])
    ELSE Raise("TypeError")

\* str.lower() on the names the model uses.
Lower(str) ==
    CASE str = "DriftFault" -> "driftfault"
      [] str = "StuckValueFault" -> "stuckvaluefault"
      [] str = "NoneType" -> "nonetype"
      [] OTHER -> str

\* The builtin registry: the lower-cased names of the fault library's classes.
registry ==
    [k \in {"driftfault", "nanfault", "normalnoisefault", "offsetfault",
            "stuckvaluefault", "uniformnoisefault"} |->
        CASE k = "driftfault" -> "DriftFault"
          [] k = "nanfault" -> "NaNFault"
          [] k = "normalnoisefault" -> "NormalNoiseFault"
          [] k = "offsetfault" -> "OffsetFault"
          [] k = "stuckvaluefault" -> "StuckValueFault"
          [] k = "uniformnoisefault" -> "UniformNoiseFault"]

_lookup_fault_class(name) ==
    IF Lower(name) \in DOMAIN registry THEN Ok(registry[Lower(name)])
    ELSE Raise("KeyError")

SameObject(obj) == obj

\* copy.deepcopy of a generator: an equal object of its own identity.
DeepCopy(obj) == [obj EXCEPT !.id = "own"]

\* cls(**params) for the classes the model constructs.
NewFault(cls, params) ==
    IF cls = "DriftFault" THEN NewDriftFault(params)
    ELSE IF cls = "StuckValueFault" THEN NewStuckValueFault(params)
    ELSE Raise("TypeError")

_instantiate_fault_shared(fault_spec, params) ==
    IF fault_spec.kind = "instance" THEN Ok(user_obj)
    ELSE
        LET cls == IF fault_spec.kind = "class" THEN Ok(fault_spec.cls)
                   ELSE _lookup_fault_class(fault_spec.name)
        IN  IF cls.err # "None" THEN cls
            ELSE IF NewFault(cls.val, params).err = "None" THEN NewFault(cls.val, params)
            ELSE Raise("RuntimeError")

\* DfUtils._instantiate_fault
_instantiate_fault(fault_spec, params) ==
    IF fault_spec.kind = "instance" THEN Ok(DeepCopy(user_obj))
    ELSE
        LET cls == IF fault_spec.kind = "class" THEN Ok(fault_spec.cls)
                   ELSE _lookup_fault_class(fault_spec.name)
        IN  IF cls.err # "None" THEN cls
            ELSE IF NewFault(cls.val, params).err = "None" THEN NewFault(cls.val, params)
            ELSE Raise("RuntimeError")

\* NaNFault.__init__, NormalNoiseFault.__init__, UniformNoiseFault.__init__
NewNaNFault ==
    [cls |-> "NaNFault", id |-> "own", fault_values |-> NoValues, fault_length |-> 0]

NewNormalNoiseFault(mu, sigma) ==
    [cls |-> "NormalNoiseFault", id |-> "own", fault_values |-> NoValues,
     fault_length |-> 0, mu |-> mu, sigma |-> sigma]

NewUniformNoiseFault(min_val, max_val) ==
    [cls |-> "UniformNoiseFault", id |-> "own", fault_values |-> NoValues,
     fault_length |-> 0, min_val |-> min_val, max_val |-> max_val]

_check_fault_length_nonneg(val) ==
    IF ~val.int THEN "ValueError"
    ELSE IF ~(val.n >= 0) THEN "ValueError"
    ELSE "None"

\* FaultUtils._check_fault_length: not an int, or not positive, raises.
_check_fault_length(val) ==
    IF ~val.int THEN "ValueError"
    ELSE IF ~(val.n > 0) THEN "ValueError"
    ELSE "None"

_check_list_array(val) ==
    IF val.type \notin {"ndarray", "list"} THEN "ValueError" ELSE "None"

_check_fault_values(fault_values) ==
    IF _check_list_array(fault_values) # "None" THEN "ValueError"
    ELSE _check_fault_length(PyInt(Len(fault_values.v)))

update_fault_unchecked(obj, fault_values) ==
    [err |-> "None", out |-> NoValues,
     obj |-> [obj EXCEPT !.fault_values = fault_values,
                         !.fault_length = Len(fault_values.v)]]

\* FaultUtils.update_fault : [err, out, obj]; it returns nothing.
update_fault(obj, fault_values) ==
    IF _check_fault_values(fault_values) # "None"
    THEN [err |-> "ValueError", out |-> NoValues, obj |-> obj]
    ELSE [err |-> "None", out |-> NoValues,
          obj |-> [obj EXCEPT !.fault_values = fault_values,
                              !.fault_length = Len(fault_values.v)]]

\* The tail of every __call__: store the values, as a list if list_output,
\* and return self.fault_values.
StoreAndReturn(obj, arr, list_output) ==
    LET upd == update_fault(obj, IF list_output THEN PyList(arr) ELSE Array(arr))
    IN  [upd EXCEPT !.out = upd.obj.fault_values]

\* np.arange(start, fault_length + start) * self.drift_rate
DriftValues(obj, n) ==
    LET start == 1 + obj.prior
    IN  [j \in 1..n |-> (start + j - 1) * obj.drift_rate]

\* DriftFault.__call__ : [err, out, obj].
DriftCall(obj, length, list_output) ==
    IF _check_fault_length(length) # "None"
    THEN [err |-> "ValueError", out |-> NoValues, obj |-> obj]
    ELSE StoreAndReturn(IF obj.continuous
                        THEN [obj EXCEPT !.prior = obj.prior + length.n]
                        ELSE obj,
                        DriftValues(obj, length.n), list_output)

resetNothing(obj) == obj

\* DriftFault.reset
reset(obj) == [obj EXCEPT !.prior = 0]

\* StuckValueFault.__call__ : [err, out, obj].
StuckCall(obj, length, list_output) ==
    IF _check_fault_length(length) # "None"
    THEN [err |-> "ValueError", out |-> NoValues, obj |-> obj]
    ELSE StoreAndReturn(obj, [j \in 1..length.n |-> obj.stuck_val], list_output)

\* NaNFault.__call__ : [err, out, obj].
NaNCall(obj, length, list_output) ==
    IF _check_fault_length(length) # "None"
    THEN [err |-> "ValueError", out |-> NoValues, obj |-> obj]
    ELSE LET r == StoreAndReturn(obj, [j \in 1..length.n |-> nan], list_output)
         IN  IF list_output THEN r
             ELSE [r EXCEPT !.obj.fault_length = length.n]

\* NormalNoiseFault.__call__ and UniformNoiseFault.__call__ : [err, out, obj];
\* draw is the sample np.random gives.
NoiseCall(obj, length, list_output, draw) ==
    IF _check_fault_length(length) # "None"
    THEN [err |-> "ValueError", out |-> NoValues, obj |-> obj]
    ELSE StoreAndReturn(obj, draw, list_output)

\* FaultUtils.create_zeros_array
create_zeros_array(x) ==
    IF _check_fault_length(x) # "None" THEN Raise("ValueError")
    ELSE Ok(Array([j \in 1..x.n |-> 0]))

\* BaseFault.__init__ with fault_values (NoValues for None) and fault_length
\* (an optional length).
NewBaseFault(fault_values, length) ==
    LET base == [cls |-> "BaseFault", id |-> "own", fault_values |-> NoValues,
                 fault_length |-> 0]
    IN  IF fault_values # NoValues
        THEN LET upd == update_fault(base, fault_values)
             IN  IF upd.err # "None" THEN Raise(upd.err) ELSE Ok(upd.obj)
        ELSE IF ~length.none
        THEN IF _check_fault_length(length.v) # "None" THEN Raise("ValueError")
             ELSE Ok([base EXCEPT !.fault_length = length.v.n,
                                  !.fault_values = create_zeros_array(length.v).val])
        ELSE Ok(base)

NewOffsetFault(offset_by) ==
    [cls |-> "OffsetFault", id |-> "own", fault_values |-> NoValues, fault_length |-> 0,
     offset_by |-> offset_by]

\* isinstance(x, (list, np.ndarray)) and isinstance(x, int) of an argument that
\* is a length ([int, n]) or a sequence of values ([type, v]).
IsValues(x) == "type" \in DOMAIN x
IsInt(x) == ~IsValues(x) /\ x.int

\* FaultUtils._list_output, or update_fault and return self.fault_values.
StoreAs(obj, fault_values, list_output) ==
    LET upd == update_fault(obj, IF list_output THEN PyList(fault_values.v)
                                 ELSE fault_values)
    IN  [upd EXCEPT !.out = upd.obj.fault_values]

\* BaseFault.__call__ : [err, out, obj].
BaseCall(obj, x, list_output) ==
    LET given == IF IsValues(x) /\ x.type \in {"list", "ndarray"} THEN Ok(x)
                 ELSE IF IsValues(x) THEN Raise("ValueError")
                 ELSE create_zeros_array(x)
    IN  IF given.err # "None"
        THEN [err |-> given.err, out |-> NoValues, obj |-> obj]
        ELSE StoreAs(obj, given.val, list_output)

\* OffsetFault.__call__ : [err, out, obj].
OffsetCall(obj, x, list_output) ==
    LET given == IF IsInt(x) THEN create_zeros_array(x)
                 ELSE IF IsValues(x) /\ _check_list_array(x) = "None" THEN Ok(x)
                 ELSE Raise("ValueError")
    IN  IF given.err # "None"
        THEN [err |-> given.err, out |-> NoValues, obj |-> obj]
        ELSE StoreAs(obj,
                     [given.val EXCEPT !.v = [j \in 1..Len(@) |-> @[j] + obj.offset_by]],
                     list_output \/ given.val.type = "list")

\* fault_obj(length, list_output) for a generator of any class.
Call(obj, length, list_output, draw) ==
    CASE obj.cls = "DriftFault" -> DriftCall(obj, length, list_output)
      [] obj.cls = "BaseFault" -> BaseCall(obj, length, list_output)
      [] obj.cls = "OffsetFault" -> OffsetCall(obj, length, list_output)
      [] obj.cls = "StuckValueFault" -> StuckCall(obj, length, list_output)
      [] obj.cls = "NaNFault" -> NaNCall(obj, length, list_output)
      [] OTHER -> NoiseCall(obj, length, list_output, draw)

\* np.asarray(fault_obj(length)) : [err, out, obj], out the values.
FaultCall(obj, length) ==
    LET r == IF obj.cls = "DriftFault" THEN DriftCall(obj, PyInt(length), FALSE)
             ELSE StuckCall(obj, PyInt(length), FALSE)
    IN  [r EXCEPT !.out = r.out.v]

CombineMeanOverAll(stacked, k) ==
    [j \in 1..Len(stacked[1]) |-> Frac(SumAt(stacked, j, k), k + 1)]

CombineMean(stacked, k) ==
    [j \in 1..Len(stacked[1]) |-> Frac(SumAt(stacked, j, k), k)]

CombineSum(stacked, k) ==
    [j \in 1..Len(stacked[1]) |-> SumAt(stacked, j, k)]

_combine_components_for_row(components, mode) ==
    IF Len(components) = 0 THEN Raise("ValueError")
    ELSE IF \E i \in 1..Len(components) : Len(components[i]) # Len(components[1])
    THEN Raise("ValueError")
    ELSE LET m == IF mode = "None" THEN "sum" ELSE mode
         IN  IF m \in {"sum", "add"} THEN Ok(CombineSum(components, Len(components)))
             ELSE IF m \in {"mean", "avg", "average"}
             THEN Ok(CombineMean(components, Len(components)))
             ELSE Raise("ValueError")

----------------------------------------------------------------------------
\* DataFrameFault.

\* The "default empty assignment slot" of a column.
EmptySlot ==
    [fault_type |-> NoType, params |-> NoParams, fault_obj |-> NoneObj,
     fault_length |-> 0, repeat |-> repeat, persist_state |-> "None"]

NewHist == [ok |-> 0, bad |-> 0]

EntryKeepsInstance(in) ==
    [fault_type |-> in.fault_type,
     params |-> in.params,
     fault_obj |-> IF in.cols[1] \in DOMAIN faults
                   THEN faults[in.cols[1]][Len(faults[in.cols[1]])].fault_obj
                   ELSE NoneObj,
     fault_length |-> in.fault_length,
     repeat |-> IF in.repeat = "None" THEN repeat ELSE in.repeat = "True",
     persist_state |-> in.persist_state]

\* The entry assign_fault builds from its arguments.
Entry(in) ==
    [fault_type |-> in.fault_type,
     params |-> in.params,
     fault_obj |-> NoneObj,
     fault_length |-> in.fault_length,
     repeat |-> IF in.repeat = "None" THEN repeat ELSE in.repeat = "True",
     persist_state |-> in.persist_state]

RegisterAlwaysAppend(assigns, entry) == Append(assigns, entry)

\* What assign_fault does with a column's list.
Register(assigns, entry) ==
    IF ~multi_fault THEN <<entry>> ELSE Append(assigns, entry)

\* The loop of assign_fault over cols[i..]; st = [faults, col_names, hist].
RECURSIVE AssignLoop(_, _, _, _)
AssignLoop(st, cols, i, in) ==
    IF i > Len(cols) THEN st
    ELSE
        LET c == cols[i]
            known == c \in DOMAIN st.faults
            fs == IF known THEN st.faults ELSE st.faults @@ (c :> <<EmptySlot>>)
            hs == IF known THEN st.hist ELSE st.hist @@ (c :> <<NewHist>>)
            names == IF known THEN st.col_names ELSE Append(st.col_names, c)
        IN  AssignLoop([faults |-> [fs EXCEPT ![c] = Register(@, Entry(in))],
                        hist |-> [hs EXCEPT ![c] = IF ~multi_fault THEN <<NewHist>>
                                                   ELSE Append(@, NewHist)],
                        col_names |-> names],
                       cols, i + 1, in)

PersistInstanceOnly(a) == persist_state

\* Effective persist_state of an assignment.
Persist(a) ==
    IF a.persist_state = "None" THEN persist_state ELSE a.persist_state = "True"

ResetEntryNever(a) == a

\* The reset at the start of generate_faults.
ResetEntry(a) ==
    IF ~Persist(a) THEN [a EXCEPT !.fault_obj = NoneObj] ELSE a

ResetFaults(fs) ==
    [c \in DOMAIN fs |-> [i \in 1..Len(fs[c]) |-> ResetEntry(fs[c][i])]]

AnyAssignment == \E c \in DOMAIN faults : Len(faults[c]) > 0

AnyFaultAssigned ==
    \E c \in DOMAIN faults : \E i \in 1..Len(faults[c]) :
        faults[c][i].fault_type # NoType

\* setattr(fault_obj, pname, pval) for every resolved parameter.
SetAttrs(obj, resolved) == resolved @@ obj

StoredOnlyIfPersist(a, fault_obj) == fault_obj # NoneObj \/ Persist(a)

\* Whether the generator is left in the assignment after the invocation. An
\* instance taken from the assignment is the same object, mutated in place.
Stored(a, fault_obj) == fault_obj # NoneObj \/ Persist(a) \/ horizontal

InstanceRecreated(a, fault_obj, vals) ==
    IF fault_obj = NoneObj \/ \E k \in DOMAIN a.params : ~_is_scalar_param(a.params[k])
    THEN _instantiate_fault(a.fault_type, vals)
    ELSE Ok(fault_obj)

\* The instance the invocation runs: a new one, or the stored one (with its
\* attributes overwritten when a parameter is not a scalar).
Instance(a, fault_obj, vals) ==
    IF fault_obj = NoneObj THEN _instantiate_fault(a.fault_type, vals)
    ELSE IF \E k \in DOMAIN a.params : ~_is_scalar_param(a.params[k])
    THEN Ok(SetAttrs(fault_obj, vals))
    ELSE Ok(fault_obj)

\* [err, out, a]: the output and the assignment after the invocation.
\* [err, out, a, user]: the output, the assignment after the invocation, and
\* the caller's instance after it (a generator of identity "user" is that
\* instance itself).
_instantiate_and_run_fault(a, row_idx, len0, fault_obj) ==
    IF a.fault_type = NoType
    THEN [err |-> "None", out |-> <<>>, a |-> a, user |-> user_obj]
    ELSE
        LET length == IF len0 # 0 THEN len0 ELSE df_length
            res == [k \in DOMAIN a.params |->
                      _resolve_param(a.params[k], df_length, row_idx, horizontal, a.repeat)]
            vals == [k \in DOMAIN res |-> res[k].val]
            bad == {k \in DOMAIN res : res[k].err # "None"}
        IN  IF length = 0
            THEN [err |-> "ValueError", out |-> <<>>, a |-> a, user |-> user_obj]
            ELSE IF bad # {}
            THEN [err |-> res[CHOOSE k \in bad : TRUE].err, out |-> <<>>, a |-> a,
                  user |-> user_obj]
            ELSE
                LET made == Instance(a, fault_obj, vals)
                IN  IF made.err # "None"
                    THEN [err |-> made.err, out |-> <<>>, a |-> a, user |-> user_obj]
                    ELSE
                        LET run == FaultCall(made.val, length)
                        IN  [err |-> run.err,
                             out |-> run.out,
                             a |-> IF Stored(a, fault_obj) /\ (run.err = "None" \/ fault_obj # NoneObj)
                                   THEN [a EXCEPT !.fault_obj = run.obj]
                                   ELSE a,
                             user |-> IF run.obj.id = "user" THEN run.obj ELSE user_obj]

EffLengthGlobalFirst(a) ==
    IF fault_length # 0 THEN fault_length
    ELSE IF a.fault_length # 0 THEN a.fault_length
    ELSE df_length

\* length = a.get("fault_length") or self.fault_length or self.df_length
EffLength(a) ==
    IF a.fault_length # 0 THEN a.fault_length
    ELSE IF fault_length # 0 THEN fault_length
    ELSE df_length

NonEmpty(c) == Len(c) > 0

\* The combined array of one column in one row.
Combined(components) ==
    LET non_empty == SelectSeq(components, NonEmpty)
    IN  IF Len(non_empty) = 1 THEN Ok(non_empty[1])
        ELSE IF Len(non_empty) > 0
        THEN _combine_components_for_row(non_empty, combine_mode)
        ELSE Ok(<<>>)

RowIndicesAlways == [i \in 1..df_length |-> i - 1]

\* range(self.df_length) when horizontal, [None] otherwise.
RowIndices ==
    IF horizontal THEN [i \in 1..df_length |-> i - 1] ELSE <<NoRow>>

\* pd.DataFrame of one array per column: the arrays must have one length.
VerticalFrame(outs) ==
    IF \E c, d \in DOMAIN outs : Len(outs[c][1]) # Len(outs[d][1])
    THEN Raise("ValueError")
    ELSE Ok([kind |-> "DataFrame", data |-> [c \in DOMAIN outs |-> outs[c][1]]])

\* pd.DataFrame of one object Series (a list of arrays) per column.
HorizontalFrame(outs) ==
    Ok([kind |-> "DataFrame", data |-> outs])

\* type(fault_type).__name__
TypeName(ft) ==
    CASE ft.kind = "None" -> "NoneType"
      [] ft.kind = "str" -> "str"
      [] ft.kind = "class" -> "type"
      [] ft.kind = "instance" -> user_obj.cls

\* The name of an extended component: f"{col}_{type name}_{ai}", as a tuple.
CompName(col, a, i) ==
    <<col, IF a.fault_type = NoType THEN "None" ELSE TypeName(a.fault_type), i>>

ExtendedNames ==
    UNION {{CompName(c, faults[c][i], i) : i \in 1..Len(faults[c])} : c \in DOMAIN faults}

\* pd.DataFrame of one object Series per component, None without components.
HorizontalExtended(comps) ==
    IF ExtendedNames = {} THEN Ok(NoDf)
    ELSE Ok([kind |-> "DataFrame",
             data |-> [nm \in ExtendedNames |-> comps[nm[1]][nm[3]]]])

\* pd.DataFrame of the one array of every component.
VerticalExtended(comps) ==
    IF \E nm, nn \in ExtendedNames :
            Len(comps[nm[1]][nm[3]][1]) # Len(comps[nn[1]][nn[3]][1])
    THEN Raise("ValueError")
    ELSE Ok([kind |-> "DataFrame",
             data |-> [nm \in ExtendedNames |-> comps[nm[1]][nm[3]][1]]])

ExtendedAlways(comps) ==
    IF horizontal THEN HorizontalExtended(comps) ELSE VerticalExtended(comps)

\* df_extended: the frame of the components if include_individual_faults, else None.
Extended(comps) ==
    IF ~include_individual_faults THEN Ok(NoDf)
    ELSE IF horizontal THEN HorizontalExtended(comps)
    ELSE VerticalExtended(comps)

\* return self.df_extended if self.include_individual_faults else self.df_final
Returns(final, extended) ==
    IF include_individual_faults THEN extended ELSE final

\* The fault type as the metadata records it.
MetaTypeName(ft) == IF ft.kind = "str" THEN ft.name ELSE TypeName(ft)

\* custom_fault, which nothing reads, is left out.
_build_metadata ==
    [kind |-> "dict",
     col_names |-> col_names,
     horizontal |-> horizontal,
     fault_length |-> fault_length,
     df_length |-> df_length,
     repeat |-> repeat,
     multi_fault |-> multi_fault,
     combine_mode |-> combine_mode,
     include_individual_faults |-> include_individual_faults,
     faults |-> [c \in DOMAIN faults |-> [i \in 1..Len(faults[c]) |->
                    [fault_type |-> MetaTypeName(faults[c][i].fault_type),
                     params |-> faults[c][i].params,
                     fault_length |-> faults[c][i].fault_length,
                     repeat |-> faults[c][i].repeat]]]]

\* DataFrameFault.__init__ called with the keyword arguments args: col_names
\* has no default.
NewDataFrameFault(args) ==
    IF "col_names" \notin DOMAIN args THEN Raise("TypeError")
    ELSE Ok([col_names |-> args["col_names"],
             horizontal |-> FALSE, fault_length |-> 0, df_length |-> 0,
             repeat |-> TRUE, multi_fault |-> FALSE, combine_mode |-> "None",
             include_individual_faults |-> FALSE, persist_state |-> FALSE,
             faults |-> <<>>])

\* DfUtils.from_metadata with cls = DataFrameFault.
DfUtils_from_metadata(md) ==
    LET inst == NewDataFrameFault("registry" :> "None")
    IN  IF inst.err # "None" THEN inst
        ELSE Ok([inst.val EXCEPT
                    !.col_names = md.col_names,
                    !.horizontal = md.horizontal,
                    !.fault_length = md.fault_length,
                    !.df_length = md.df_length,
                    !.repeat = md.repeat,
                    !.multi_fault = md.multi_fault,
                    !.combine_mode = md.combine_mode,
                    !.include_individual_faults = md.include_individual_faults,
                    !.faults = [c \in DOMAIN md.faults |->
                                  [i \in 1..Len(md.faults[c]) |->
                                      [fault_type |-> md.faults[c][i].fault_type,
                                       params |-> md.faults[c][i].params,
                                       fault_obj |-> NoneObj,
                                       fault_length |-> md.faults[c][i].fault_length,
                                       repeat |-> md.faults[c][i].repeat]]]])

\* DataFrameFault.from_metadata
from_metadata(md) == DfUtils_from_metadata(md)

\* hist after a generate_faults call that completed (field "ok") or raised ("bad").
Count(hs, field) ==
    [c \in DOMAIN hs |-> [i \in 1..Len(hs[c]) |->
        [hs[c][i] EXCEPT ![field] = @ + 1]]]

----------------------------------------------------------------------------
\* Actions.

\* DataFrameFault(col_names = ["A"], **cfg)
Construct(cfg) ==
    /\ horizontal = cfg.horizontal
    /\ fault_length = cfg.fault_length
    /\ df_length = cfg.df_length
    /\ repeat = cfg.repeat
    /\ multi_fault = cfg.multi_fault
    /\ combine_mode = cfg.combine_mode
    /\ persist_state = cfg.persist_state
    /\ include_individual_faults = cfg.include_individual_faults
    /\ col_names = <<"A">>
    /\ faults = [c \in {"A"} |-> <<EmptySlot>>]
    /\ df_final = NoDf
    /\ df_extended = NoDf
    /\ metadata = NoMetadata
    /\ pc = "idle"
    /\ ri = 0 /\ ci = 0 /\ ai = 0
    /\ row_components = <<>>
    /\ col_outputs = <<>>
    /\ extended_components = <<>>
    /\ user_obj = [cls |-> "DriftFault", id |-> "user", fault_values |-> NoValues,
                   fault_length |-> 0, drift_rate |-> 2, prior |-> 0,
                   continuous |-> TRUE]
    /\ restored = NotRestored
    /\ fault = NoneObj
    /\ values = NoValues
    /\ last_op = [op |-> "None"]
    /\ since_reset = 0
    /\ n_ops = 0
    /\ injector = NoneObj
    /\ caller_x = NoValues
    /\ injected = NoValues
    /\ passed_x = NoValues
    /\ df_injector = NoneObj
    /\ inject_ret = NoDf
    /\ inject_args = [op |-> "None"]
    /\ fault_injection = NoneObj
    /\ fi_args = [op |-> "None"]
    /\ n_inject = 0
    /\ err = "None"
    /\ ret = NoDf
    /\ hist = [c \in {"A"} |-> <<NewHist>>]
    /\ faults0 = faults
    /\ n_assign = 0
    /\ n_gen = 0

\* assign_fault(in.cols, in.fault_type, in.params, in.fault_length, in.repeat,
\*              in.persist_state)
assign_fault(in) ==
    /\ pc = "idle"
    /\ LET st == AssignLoop([faults |-> faults, hist |-> hist, col_names |-> col_names],
                            in.cols, 1, in)
       IN  /\ faults' = st.faults
           /\ hist' = st.hist
           /\ col_names' = st.col_names
           \* the metadata holds the col_names list itself
           /\ metadata' = IF metadata = NoMetadata THEN metadata
                          ELSE [metadata EXCEPT !.col_names = st.col_names]
    /\ n_assign' = n_assign + 1
    /\ err' = "None"
    /\ ret' = NoDf
    /\ UNCHANGED <<config, df_final, df_extended, pc, loops, user_obj, faults0, n_gen,
                   outside>>

\* An exception leaves generate_faults: the loops are abandoned.
Abort(e) ==
    /\ pc' = "idle"
    /\ ri' = 0 /\ ci' = 0 /\ ai' = 0
    /\ row_components' = <<>>
    /\ col_outputs' = <<>>
    /\ extended_components' = <<>>
    /\ err' = e
    /\ ret' = NoDf
    /\ hist' = Count(hist, "bad")

\* generate_faults with no fault assigned: raises at once.
GenerateNoFaults ==
    /\ pc = "idle"
    /\ ~AnyFaultAssigned
    /\ err' = "ValueError"
    /\ ret' = NoDf
    /\ hist' = Count(hist, "bad")
    /\ n_gen' = n_gen + 1
    /\ UNCHANGED <<config, col_names, faults, results, pc, loops, user_obj, faults0,
                   n_assign, outside>>

\* generate_faults, up to the reset of the non-persistent generators and the
\* entry into the loops of _generate_faults.
GenerateStart ==
    /\ pc = "idle"
    /\ AnyFaultAssigned
    /\ faults' = ResetFaults(faults)
    /\ faults0' = ResetFaults(faults)
    /\ IF horizontal /\ df_length = 0
       THEN Abort("TypeError")                      \* range(None)
       ELSE /\ pc' = "run"
            /\ ri' = 1 /\ ci' = 1 /\ ai' = 1
            /\ row_components' = <<>>
            /\ col_outputs' = [c \in DOMAIN faults |-> <<>>]
            /\ extended_components' = [c \in DOMAIN faults |-> <<>>]
            /\ err' = "None"
            /\ ret' = NoDf
            /\ UNCHANGED hist
    /\ n_gen' = n_gen + 1
    /\ UNCHANGED <<config, col_names, results, user_obj, n_assign, outside>>

InCell == pc = "run" /\ ri <= Len(RowIndices)

\* One pass of the loop over the column's assignments: one generator invocation.
RunFault ==
    /\ InCell
    /\ ai <= Len(faults[col_names[ci]])
    /\ LET col == col_names[ci]
           a == faults[col][ai]
           r == _instantiate_and_run_fault(a, RowIndices[ri], EffLength(a), a.fault_obj)
       IN  /\ faults' = [faults EXCEPT ![col][ai] = r.a]
           /\ user_obj' = r.user
           /\ IF r.err # "None"
              THEN Abort(r.err)
              ELSE /\ row_components' = Append(row_components, r.out)
                   /\ extended_components' =
                         [extended_components EXCEPT ![col] =
                             IF ai > Len(@) THEN Append(@, <<r.out>>)
                             ELSE [@ EXCEPT ![ai] = Append(@, r.out)]]
                   /\ ai' = ai + 1
                   /\ UNCHANGED <<pc, ri, ci, col_outputs, err, ret, hist>>
    /\ UNCHANGED <<config, col_names, results, faults0, n_assign, n_gen, outside>>

\* The end of the loop over the column's assignments: the row's components are
\* combined, and the loops move to the next column or row.
CombineRow ==
    /\ InCell
    /\ ai > Len(faults[col_names[ci]])
    /\ LET combined == Combined(row_components)
       IN  IF combined.err # "None"
           THEN Abort(combined.err)
           ELSE /\ col_outputs' = [col_outputs EXCEPT ![col_names[ci]] = Append(@, combined.val)]
                /\ row_components' = <<>>
                /\ ai' = 1
                /\ ci' = IF ci < Len(col_names) THEN ci + 1 ELSE 1
                /\ ri' = IF ci < Len(col_names) THEN ri ELSE ri + 1
                /\ UNCHANGED <<pc, err, ret, hist, extended_components>>
    /\ UNCHANGED <<config, col_names, faults, results, user_obj, faults0, n_assign, n_gen,
                   outside>>

\* After the loops: the frame is built and generate_faults returns it.
BuildFrame ==
    /\ pc = "run"
    /\ ri > Len(RowIndices)
    /\ LET frame == IF horizontal THEN HorizontalFrame(col_outputs)
                    ELSE VerticalFrame(col_outputs)
           ext == Extended(extended_components)
       IN  IF frame.err # "None"
           THEN Abort(frame.err) /\ UNCHANGED results
           ELSE IF ext.err # "None"
           THEN \* df_final is already assigned when the extended frame fails
                Abort(ext.err) /\ df_final' = frame.val /\ UNCHANGED <<df_extended, metadata>>
           ELSE /\ df_final' = frame.val
                /\ df_extended' = ext.val
                /\ metadata' = _build_metadata
                /\ ret' = Returns(frame.val, ext.val)
                /\ pc' = "idle"
                /\ ri' = 0 /\ ci' = 0 /\ ai' = 0
                /\ row_components' = <<>>
                /\ col_outputs' = <<>>
                /\ extended_components' = <<>>
                /\ err' = "None"
                /\ hist' = Count(hist, "ok")
    /\ UNCHANGED <<config, col_names, faults, user_obj, faults0, n_assign, n_gen, outside>>

\* DataFrameFault.from_metadata(self._build_metadata())
FromMetadata ==
    /\ pc = "idle"
    /\ restored' = from_metadata(_build_metadata)
    /\ err' = restored'.err
    /\ ret' = NoDf
    /\ UNCHANGED <<dataframe_fault, generator, injectors>>

----------------------------------------------------------------------------
\* Inputs: constructor arguments and assign_fault arguments.

Config(h, fl, n, rep, multi, mode, ps) ==
    [horizontal |-> h, fault_length |-> fl, df_length |-> n, repeat |-> rep,
     multi_fault |-> multi, combine_mode |-> mode, persist_state |-> ps,
     include_individual_faults |-> FALSE]

\* The same arguments with include_individual_faults = inc.
Individual(cfg, inc) == [cfg EXCEPT !.include_individual_faults = inc]

Input(cols, ft, params, fl, rep, ps) ==
    [cols |-> cols, fault_type |-> ft, params |-> params, fault_length |-> fl,
     repeat |-> rep, persist_state |-> ps]

Drift(rate, continuous) ==
    ("drift_rate" :> rate) @@ ("continuous" :> Scalar(continuous))

Stuck(val) == ("stuck_val" :> val)

DfLengths == 1..MaxDfLength

\* Persistence: continuous drift under every instance-level and assignment-level
\* persist_state, a non-continuous drift, and a list parameter that is rejected
\* unless it fits df_length.
ConfigsPersist ==
    {Config(h, 2, n, TRUE, FALSE, "None", ps) :
        h \in BOOLEAN, n \in DfLengths, ps \in BOOLEAN}

\* The list <<2, 3, ...>> of m drift rates.
Rates(m) == [i \in 1..m |-> i + 1]

InputsPersist ==
    {Input(<<"A">>, Class("DriftFault"), Drift(Scalar(2), TRUE), 0, "None", ps) :
        ps \in {"None", "True", "False"}}
    \cup {Input(<<"A">>, Class("DriftFault"), Drift(List(Rates(m)), TRUE), 0, "None", "None") :
        m \in 2..MaxDfLength}
    \cup {Input(<<"A">>, Class("DriftFault"), Drift(Scalar(3), FALSE), 0, "None", "None"),
          Input(<<"B">>, Class("DriftFault"), Drift(Scalar(2), TRUE), 0, "None", "None"),
          Input(<<"B">>, Class("StuckValueFault"), Stuck(List(<<1, 2>>)), 0, "False", "None")}

InitPersist == \E cfg \in ConfigsPersist : Construct(cfg)

NextPersist ==
    \/ \E in \in InputsPersist : n_assign < MaxAssigns /\ assign_fault(in)
    \/ n_gen < MaxCalls /\ GenerateNoFaults
    \/ n_gen < MaxCalls /\ GenerateStart
    \/ RunFault
    \/ CombineRow
    \/ BuildFrame

SpecPersist == InitPersist /\ [][NextPersist]_vars

\* Parameter resolution: scalar, one-element and longer lists of stuck values
\* against every df_length, with every instance-level and assignment-level
\* repeat, in both modes, the length coming from fault_length or from df_length.
ConfigsParams ==
    {Config(h, fl, n, rep, FALSE, "None", FALSE) :
        h \in BOOLEAN, fl \in {0, 2}, n \in DfLengths, rep \in BOOLEAN}

\* The list <<1, 2, ...>> of m stuck values.
Vals(m) == [i \in 1..m |-> i]

InputsParams ==
    {Input(<<"A">>, Class("StuckValueFault"), Stuck(List(Vals(m))), 0, rep, "None") :
        m \in 2..(MaxDfLength + 1), rep \in {"None", "True", "False"}}
    \cup {Input(<<"A">>, Class("StuckValueFault"), Stuck(Scalar(5)), 0, "None", "None"),
          Input(<<"A">>, Class("StuckValueFault"), Stuck(List(<<7>>)), 0, "None", "None"),
          Input(<<"A">>, Class("DriftFault"), Drift(Scalar(2), FALSE), 0, "None", "None"),
          Input(<<"A">>, Class("DriftFault"), Drift(Scalar(2), TRUE), 0, "None", "True")}

InitParams == \E cfg \in ConfigsParams : Construct(cfg)

NextParams ==
    \/ \E in \in InputsParams : n_assign < MaxAssigns /\ assign_fault(in)
    \/ n_gen < MaxCalls /\ GenerateNoFaults
    \/ n_gen < MaxCalls /\ GenerateStart
    \/ RunFault
    \/ CombineRow
    \/ BuildFrame

SpecParams == InitParams /\ [][NextParams]_vars

\* Several assignments per column: with and without multi_fault, under the
\* default combine mode and under "mean", outputs of equal and of different
\* lengths, and one registration that names two columns.
ConfigsMulti ==
    {Config(h, 2, n, TRUE, multi, mode, FALSE) :
        h \in BOOLEAN, n \in 1..2, multi \in BOOLEAN, mode \in {"None", "mean"}}

InputsMulti ==
    {Input(<<"A">>, Class("StuckValueFault"), Stuck(Scalar(1)), 0, "None", "None"),
     Input(<<"A">>, Class("StuckValueFault"), Stuck(Scalar(2)), 0, "None", "None"),
     Input(<<"A">>, Class("DriftFault"), Drift(Scalar(3), FALSE), 0, "None", "None"),
     Input(<<"A">>, Class("StuckValueFault"), Stuck(Scalar(4)), 1, "None", "None"),
     Input(<<"A", "B">>, Class("StuckValueFault"), Stuck(Scalar(2)), 0, "None", "None")}

InitMulti == \E cfg \in ConfigsMulti : Construct(cfg)

NextMulti ==
    \/ \E in \in InputsMulti : n_assign < MaxAssigns /\ assign_fault(in)
    \/ n_gen < MaxCalls /\ GenerateNoFaults
    \/ n_gen < MaxCalls /\ GenerateStart
    \/ RunFault
    \/ CombineRow
    \/ BuildFrame

SpecMulti == InitMulti /\ [][NextMulti]_vars

\* Lengths and frames: df_length and fault_length given or not, an assignment
\* with its own fault_length, one without a fault type, a second column, with
\* and without include_individual_faults and multi_fault.
ConfigsFrames ==
    {Individual(Config(h, fl, n, TRUE, multi, "None", FALSE), inc) :
        h \in BOOLEAN, fl \in {0, 2}, n \in {0, 1, 2}, multi \in BOOLEAN, inc \in BOOLEAN}

InputsFrames ==
    {Input(<<"A">>, Class("DriftFault"), Drift(Scalar(2), FALSE), 0, "None", "None"),
     Input(<<"A">>, Class("StuckValueFault"), Stuck(Scalar(1)), 1, "None", "None"),
     Input(<<"A">>, NoType, NoParams, 0, "None", "None"),
     Input(<<"B">>, Class("StuckValueFault"), Stuck(Scalar(2)), 0, "None", "None")}

InitFrames == \E cfg \in ConfigsFrames : Construct(cfg)

NextFrames ==
    \/ \E in \in InputsFrames : n_assign < MaxAssigns /\ assign_fault(in)
    \/ n_gen < MaxCalls /\ GenerateNoFaults
    \/ n_gen < MaxCalls /\ GenerateStart
    \/ RunFault
    \/ CombineRow
    \/ BuildFrame

SpecFrames == InitFrames /\ [][NextFrames]_vars

\* Fault types: a class, registry names as the caller may write them, and the
\* caller's ready instance with and without a per-row parameter list; the
\* metadata and its way back through from_metadata.
ConfigsTypes ==
    {Config(h, 2, n, TRUE, FALSE, "None", ps) :
        h \in BOOLEAN, n \in 1..2, ps \in BOOLEAN}

InputsTypes ==
    {Input(<<"A">>, Class("DriftFault"), Drift(Scalar(2), TRUE), 0, "None", "None"),
     Input(<<"A">>, Name("driftfault"), Drift(Scalar(3), FALSE), 0, "None", "None"),
     Input(<<"A">>, Name("StuckValueFault"), Stuck(Scalar(1)), 0, "None", "None"),
     Input(<<"A">>, Ready, NoParams, 0, "None", "None"),
     Input(<<"A">>, Ready, Drift(List(Rates(2)), TRUE), 0, "None", "None")}

InitTypes == \E cfg \in ConfigsTypes : Construct(cfg)

NextTypes ==
    \/ \E in \in InputsTypes : n_assign < MaxAssigns /\ assign_fault(in)
    \/ n_gen < MaxCalls /\ GenerateNoFaults
    \/ n_gen < MaxCalls /\ GenerateStart
    \/ RunFault
    \/ CombineRow
    \/ BuildFrame
    \/ FromMetadata

SpecTypes == InitTypes /\ [][NextTypes]_vars

\* Re-assignment and shared specifications: continuous drift as a class and as
\* the caller's ready instance, assigned to one column or to two columns in one
\* call, with and without multi_fault and persist_state.
ConfigsReassign ==
    {Config(h, 2, 2, TRUE, multi, "None", ps) :
        h \in BOOLEAN, multi \in BOOLEAN, ps \in BOOLEAN}

InputsReassign ==
    {Input(<<"A", "B">>, Class("DriftFault"), Drift(Scalar(2), TRUE), 0, "None", "None"),
     Input(<<"A">>, Class("DriftFault"), Drift(Scalar(3), TRUE), 0, "None", "None"),
     Input(<<"A", "B">>, Ready, NoParams, 0, "None", "None")}

InitReassign == \E cfg \in ConfigsReassign : Construct(cfg)

NextReassign ==
    \/ \E in \in InputsReassign : n_assign < MaxAssigns /\ assign_fault(in)
    \/ n_gen < MaxCalls /\ GenerateNoFaults
    \/ n_gen < MaxCalls /\ GenerateStart
    \/ RunFault
    \/ CombineRow
    \/ BuildFrame

SpecReassign == InitReassign /\ [][NextReassign]_vars

----------------------------------------------------------------------------
\* A generator of the fault library used on its own: constructed, called with
\* a length, reset (DriftFault) and given values (update_fault).

Generators ==
    {NewDriftFault([drift_rate |-> r, continuous |-> c]).val : r \in {2, 3}, c \in BOOLEAN}
    \cup {NewStuckValueFault([stuck_val |-> 5]).val, NewNaNFault,
          NewNormalNoiseFault(0, 1), NewUniformNoiseFault(0, 1)}
    \cup {NewBaseFault(NoValues, PyNone).val, NewBaseFault(PyList(<<7, 8>>), PyNone).val,
          NewBaseFault(NoValues, Some(PyInt(2))).val, NewOffsetFault(1)}

Lengths == {PyInt(-1), PyInt(0), PyInt(1), PyInt(2), PyFloat(2)}

Updates == {Array(<<7>>), PyList(<<7, 8>>), PyList(<<>>), PyTuple(<<7>>)}

\* The values np.random can give a noise generator, cut down to two.
Sample(obj) ==
    IF obj.cls = "UniformNoiseFault" THEN {obj.min_val, obj.max_val}
    ELSE IF obj.cls = "NormalNoiseFault" THEN {obj.mu - obj.sigma, obj.mu + obj.sigma}
    ELSE {}

Draws(obj, length) ==
    IF Sample(obj) # {} /\ _check_fault_length(length) = "None"
    THEN [1..length.n -> Sample(obj)]
    ELSE {<<>>}

\* fault = DriftFault(...), StuckValueFault(...), ...
NewGenerator ==
    /\ fault = NoneObj
    /\ fault' \in Generators
    /\ values' = NoValues
    /\ err' = "None"
    /\ last_op' = [op |-> "new"]
    /\ since_reset' = 0
    /\ UNCHANGED <<dataframe_fault, ret, restored, n_ops, injectors>>

\* fault(length, list_output)
CallFault ==
    /\ fault # NoneObj
    /\ n_ops < MaxOps
    /\ \E length \in Lengths, list_output \in BOOLEAN :
        \E draw \in Draws(fault, length) :
            LET r == Call(fault, length, list_output, draw)
            IN  /\ fault' = r.obj
                /\ values' = r.out
                /\ err' = r.err
                /\ last_op' = [op |-> "call", length |-> length, list_output |-> list_output]
                /\ since_reset' = IF r.err = "None" THEN since_reset + length.n
                                  ELSE since_reset
    /\ n_ops' = n_ops + 1
    /\ UNCHANGED <<dataframe_fault, ret, restored, injectors>>

\* fault(x, list_output) of a BaseFault or an OffsetFault, x a sequence.
CallWithValues ==
    /\ fault # NoneObj
    /\ fault.cls \in {"BaseFault", "OffsetFault"}
    /\ n_ops < MaxOps
    /\ \E x \in Updates, list_output \in BOOLEAN :
        LET r == Call(fault, x, list_output, <<>>)
        IN  /\ fault' = r.obj
            /\ values' = r.out
            /\ err' = r.err
            /\ last_op' = [op |-> "call_values", x |-> x, list_output |-> list_output]
    /\ n_ops' = n_ops + 1
    /\ UNCHANGED <<dataframe_fault, ret, restored, since_reset, injectors>>

\* fault.reset()
ResetFault ==
    /\ fault # NoneObj
    /\ fault.cls = "DriftFault"
    /\ n_ops < MaxOps
    /\ fault' = reset(fault)
    /\ values' = NoValues
    /\ err' = "None"
    /\ last_op' = [op |-> "reset"]
    /\ since_reset' = 0
    /\ n_ops' = n_ops + 1
    /\ UNCHANGED <<dataframe_fault, ret, restored, injectors>>

\* fault.update_fault(fault_values)
UpdateFault ==
    /\ fault # NoneObj
    /\ n_ops < MaxOps
    /\ \E fault_values \in Updates :
        LET r == update_fault(fault, fault_values)
        IN  /\ fault' = r.obj
            /\ values' = r.out
            /\ err' = r.err
            /\ last_op' = [op |-> "update", fault_values |-> fault_values]
    /\ n_ops' = n_ops + 1
    /\ UNCHANGED <<dataframe_fault, ret, restored, since_reset, injectors>>

InitGenerator == Construct(Config(FALSE, 0, 0, TRUE, FALSE, "None", FALSE))

NextGenerator ==
    \/ NewGenerator
    \/ CallFault
    \/ CallWithValues
    \/ ResetFault
    \/ UpdateFault

SpecGenerator == InitGenerator /\ [][NextGenerator]_vars

----------------------------------------------------------------------------
\* Injector(fault, params): one fault applied to the window [start, stop) of
\* one array. The class is not among the sources (injector.py holds the older
\* FaultInjection); it is modelled from its specification and its tests.

\* The faults of the tests: callables on the window's values.
IdentityFault == [cls |-> "IdentityFault", instance |-> TRUE]
AddOneFault == [cls |-> "AddOneFault", instance |-> TRUE]
BadFaultClass == [cls |-> "BadFaultClass", instance |-> FALSE]

\* fault(x) : the class itself is not callable on an array.
Apply(f, x) ==
    IF ~f.instance THEN Raise("TypeError")
    ELSE IF f.cls = "AddOneFault" THEN Ok([k \in 1..Len(x) |-> x[k] + 1])
    ELSE Ok(x)

\* Injector.__init__: start defaults to 0, stop to -1.
NewInjector(f, params) ==
    [fault |-> f,
     start |-> IF "start" \in DOMAIN params THEN params["start"] ELSE 0,
     stop |-> IF "stop" \in DOMAIN params THEN params["stop"] ELSE -1]

\* The bounds of the slice [start:stop] of a sequence of length n, as Python
\* takes them: a negative index counts from the end, and both are clipped.
SliceIndex(i, n) ==
    IF i < 0 THEN (IF i + n < 0 THEN 0 ELSE i + n)
    ELSE IF i > n THEN n ELSE i

\* x[start:stop] = new, new as long as the slice.
SetSlice(x, start, stop, new) ==
    LET lo == SliceIndex(start, Len(x))
        hi == SliceIndex(stop, Len(x))
    IN  [k \in 1..Len(x) |-> IF lo < k /\ k <= hi THEN new[k - lo] ELSE x[k]]

\* x[start:stop]
Slice(x, start, stop) ==
    SubSeq(x, SliceIndex(start, Len(x)) + 1, SliceIndex(stop, Len(x)))

inject_fault_in_place(inj, x) ==
    LET n == Len(x)
        new == Apply(inj.fault, Slice(x, inj.start, inj.stop))
    IN  IF inj.start < -n \/ inj.start > n
        THEN [err |-> "ValueError", out |-> NoValues, x |-> x]
        ELSE IF inj.stop <= -n \/ inj.stop > n
        THEN [err |-> "ValueError", out |-> NoValues, x |-> x]
        ELSE IF new.err # "None"
        THEN [err |-> new.err, out |-> NoValues, x |-> x]
        ELSE [err |-> "None",
              out |-> Array(SetSlice(x, inj.start, inj.stop, new.val)),
              x |-> SetSlice(x, inj.start, inj.stop, new.val)]

\* Injector.inject_fault : [err, out, x], x the caller's array after the call.
\* start must lie in [-len(x), len(x)] and stop in (-len(x), len(x)]; the
\* fault's values for the window are written into a copy of x.
inject_fault(inj, x) ==
    LET n == Len(x)
        new == Apply(inj.fault, Slice(x, inj.start, inj.stop))
    IN  IF inj.start < -n \/ inj.start > n
        THEN [err |-> "ValueError", out |-> NoValues, x |-> x]
        ELSE IF inj.stop <= -n \/ inj.stop > n
        THEN [err |-> "ValueError", out |-> NoValues, x |-> x]
        ELSE IF new.err # "None"
        THEN [err |-> new.err, out |-> NoValues, x |-> x]
        ELSE [err |-> "None",
              out |-> Array(SetSlice(x, inj.start, inj.stop, new.val)),
              x |-> x]

Indices == (0 - MaxLen - 1)..(MaxLen + 1)

InjectorParams ==
    {<<>>} \cup {[start |-> s, stop |-> e] : s, e \in Indices}

Arrays == UNION {[1..n -> {10, 20}] : n \in 0..MaxLen}

\* inj = Injector(fault, params)
ConstructInjector ==
    /\ injector = NoneObj
    /\ \E f \in {IdentityFault, AddOneFault, BadFaultClass}, params \in InjectorParams :
        injector' = NewInjector(f, params)
    /\ err' = "None"
    /\ UNCHANGED <<dataframe_fault, ret, restored, generator, caller_x, injected, passed_x,
                   frame_injection, series_injection, n_inject>>

\* out = inj.inject_fault(x)
InjectFault ==
    /\ injector # NoneObj
    /\ passed_x = NoValues
    /\ \E x \in Arrays :
        LET r == inject_fault(injector, x)
        IN  /\ passed_x' = Array(x)
            /\ caller_x' = Array(r.x)
            /\ injected' = r.out
            /\ err' = r.err
    /\ UNCHANGED <<dataframe_fault, ret, restored, generator, injector, frame_injection,
                   series_injection, n_inject>>

InitInjector == Construct(Config(FALSE, 0, 0, TRUE, FALSE, "None", FALSE))

NextInjector ==
    \/ ConstructInjector
    \/ InjectFault

SpecInjector == InitInjector /\ [][NextInjector]_vars

----------------------------------------------------------------------------
\* DataFrameInjector: the values of a faulty frame written into, or added to,
\* a row range of a working copy of a frame. A frame is its column names in
\* order and, per column, the list of its cells: Scalar(x) for a number,
\* List(s) for an array.

Frame(cols, data) == [kind |-> "DataFrame", columns |-> cols, data |-> data]

\* len(df)
Rows(df) == IF Len(df.columns) = 0 THEN 0 ELSE Len(df.data[df.columns[1]])

\* DataFrameInjector._is_horizontal
_is_horizontal(df) ==
    \A c \in DOMAIN df.data : \A i \in 1..Len(df.data[c]) : df.data[c][i].list

_assert_any_orientation(df_a, df_b) == "None"

\* DataFrameInjector._assert_same_orientation
_assert_same_orientation(df_a, df_b) ==
    IF _is_horizontal(df_a) # _is_horizontal(df_b) THEN "TypeError" ELSE "None"

\* DataFrameInjector.__init__
NewDataFrameInjector(df) ==
    [cls |-> "DataFrameInjector", original_df |-> df, df |-> df,
     horizontal |-> _is_horizontal(df)]

NewCellReplaceOnly(orig, flt, replace, h) ==
    [list |-> h \/ flt.list, v |-> flt.v]

\* new_arr = fault_arr if replace else orig_arr + fault_arr, and the same for
\* numbers; an array is stored in horizontal mode.
NewCell(orig, flt, replace, h) ==
    [list |-> h \/ flt.list,
     v |-> IF replace THEN flt.v ELSE [j \in 1..Len(flt.v) |-> orig.v[j] + flt.v[j]]]

\* The least element of a non-empty set of numbers.
Least(S) == CHOOSE m \in S : \A k \in S : m <= k

\* self after the injection loop stopped in front of cell number stop_at (of
\* cells, counted column by column): the cells written so far are in self.df.
Injected(self, new, stop_at, cells) == [self EXCEPT !.df = new]

\* DataFrameInjector.inject_faults : [err, ret, self]. columns_to_inject names
\* no column twice.
inject_faults(self, faulty_df, columns_to_inject, column_map, start, stop, replace) ==
    LET n == Rows(self.df)
        start_ == IF start.none THEN 0 ELSE start.v
        stop_ == IF stop.none THEN n ELSE stop.v
        inject_len == stop_ - start_
        cols == IF columns_to_inject.none THEN self.df.columns ELSE columns_to_inject.v
        fault_col(c) == IF column_map.none THEN c
                        ELSE IF c \in DOMAIN column_map.v THEN column_map.v[c]
                        ELSE c
        raise(e) == [err |-> e, ret |-> NoDf, self |-> self]
    IN  IF _assert_same_orientation(self.original_df, faulty_df) # "None"
        THEN raise("TypeError")
        ELSE IF ~(0 <= start_ /\ start_ <= stop_ /\ stop_ <= n)
        THEN raise("ValueError")
        ELSE IF \E i \in 1..Len(cols) :
                    \/ cols[i] \notin DOMAIN self.df.data
                    \/ fault_col(cols[i]) \notin DOMAIN faulty_df.data
        THEN raise("KeyError")
        ELSE IF Len(cols) > 0 /\ Rows(faulty_df) # inject_len
        THEN raise("ValueError")
        ELSE
            LET pos(i, k) == (i - 1) * inject_len + k
                cells == Len(cols) * inject_len
                orig(i, k) == self.df.data[cols[i]][start_ + k]
                flt(i, k) == faulty_df.data[fault_col(cols[i])][k]
                bad == {pos(q[1], q[2]) :
                          q \in {p \in (1..Len(cols)) \X (1..inject_len) :
                                   /\ self.horizontal
                                   /\ Len(orig(p[1], p[2]).v) # Len(flt(p[1], p[2]).v)}}
                stop_at == IF bad = {} THEN cells + 1 ELSE Least(bad)
                new == [self.df EXCEPT !.data =
                    [c \in DOMAIN self.df.data |-> [r \in 1..n |->
                        IF \E i \in 1..Len(cols) :
                            /\ cols[i] = c
                            /\ start_ < r /\ r <= stop_
                            /\ pos(i, r - start_) < stop_at
                        THEN LET i == CHOOSE j \in 1..Len(cols) : cols[j] = c
                             IN  NewCell(orig(i, r - start_), flt(i, r - start_),
                                         replace, self.horizontal)
                        ELSE self.df.data[c][r]]]]
                after == Injected(self, new, stop_at, cells)
            IN  IF stop_at <= cells
                THEN [err |-> "ValueError", ret |-> NoDf, self |-> after]
                ELSE [err |-> "None", ret |-> after.df, self |-> after]

\* DataFrameInjector.restore_original
restore_original(self) == [self EXCEPT !.df = self.original_df]

Num(s) == [i \in 1..Len(s) |-> Scalar(s[i])]
Arr(s) == [i \in 1..Len(s) |-> List(s[i])]

OriginalFrames ==
    {Frame(<<"A", "B">>, [A |-> Num(<<1, 2, 3>>), B |-> Num(<<4, 5, 6>>)]),
     Frame(<<"A", "B">>, [A |-> Arr(<<<<1, 2>>, <<3, 4>>>>), B |-> Arr(<<<<5>>, <<6>>>>)])}

FaultyFrames ==
    {Frame(<<"A", "B", "F">>,
           [A |-> Num(<<10>>), B |-> Num(<<20>>), F |-> Num(<<30>>)]),
     Frame(<<"A", "B", "F">>,
           [A |-> Num(<<10, 11>>), B |-> Num(<<20, 21>>), F |-> Num(<<30, 31>>)]),
     Frame(<<"A", "B", "F">>,
           [A |-> Arr(<<<<10, 11>>>>), B |-> Arr(<<<<20>>>>), F |-> Arr(<<<<30, 31>>>>)]),
     Frame(<<"A", "B", "F">>,
           [A |-> Arr(<<<<10, 11>>, <<12, 13>>>>), B |-> Arr(<<<<20>>, <<21>>>>),
            F |-> Arr(<<<<30, 31>>, <<32, 33>>>>)]),
     Frame(<<"A", "B">>,
           [A |-> Arr(<<<<10, 11>>, <<12>>>>), B |-> Arr(<<<<20>>, <<21>>>>)]),
     Frame(<<"A", "B">>,
           [A |-> Arr(<<<<10, 11>>, <<12, 13>>>>), B |-> Arr(<<<<20>>, <<21, 22>>>>)])}

\* columns_to_inject and column_map.
ColumnChoices ==
    {<<PyNone, PyNone>>, <<Some(<<"A">>), PyNone>>, <<Some(<<"A">>), Some([A |-> "F"])>>,
     <<Some(<<"C">>), PyNone>>, <<PyNone, Some([B |-> "G"])>>}

\* start and stop.
Ranges ==
    {<<PyNone, PyNone>>, <<Some(1), Some(2)>>, <<Some(1), PyNone>>, <<Some(3), Some(2)>>}

\* injector = DataFrameInjector(df)
ConstructDataFrameInjector ==
    /\ df_injector = NoneObj
    /\ \E df \in OriginalFrames : df_injector' = NewDataFrameInjector(df)
    /\ err' = "None"
    /\ UNCHANGED <<dataframe_fault, ret, restored, generator, injection, inject_ret,
                   inject_args, series_injection, n_inject>>

\* injector.inject_faults(faulty_df, columns_to_inject, column_map, start, stop, replace)
InjectFaults ==
    /\ df_injector # NoneObj
    /\ n_inject < MaxInjects
    /\ \E faulty_df \in FaultyFrames, choice \in ColumnChoices, range \in Ranges,
          replace \in BOOLEAN :
        LET columns_to_inject == choice[1]
            column_map == choice[2]
            start == range[1]
            stop == range[2]
            r == inject_faults(df_injector, faulty_df, columns_to_inject, column_map,
                               start, stop, replace)
        IN  /\ df_injector' = r.self
            /\ inject_ret' = r.ret
            /\ err' = r.err
            /\ inject_args' = [op |-> "inject_faults", faulty_df |-> faulty_df,
                               columns_to_inject |-> columns_to_inject,
                               column_map |-> column_map, start |-> start,
                               stop |-> stop, replace |-> replace]
    /\ n_inject' = n_inject + 1
    /\ UNCHANGED <<dataframe_fault, ret, restored, generator, injection, series_injection>>

\* injector.restore_original()
RestoreOriginal ==
    /\ df_injector # NoneObj
    /\ df_injector.df # df_injector.original_df
    /\ df_injector' = restore_original(df_injector)
    /\ inject_ret' = df_injector'.df
    /\ err' = "None"
    /\ inject_args' = [op |-> "restore_original"]
    /\ UNCHANGED <<dataframe_fault, ret, restored, generator, injection, series_injection,
                   n_inject>>

InitDataFrameInjector == Construct(Config(FALSE, 0, 0, TRUE, FALSE, "None", FALSE))

NextDataFrameInjector ==
    \/ ConstructDataFrameInjector
    \/ InjectFaults
    \/ RestoreOriginal

SpecDataFrameInjector == InitDataFrameInjector /\ [][NextDataFrameInjector]_vars

----------------------------------------------------------------------------
\* FaultInjection: a list of numbers and a fault window [start, stop) into
\* which faults are injected. The values argument is [type, of, v]: its
\* Python type, the type of its first element, and its elements (for a list
\* of strings, as many zeros). "random" as start or stop, and the random
\* drift rate, are not among the inputs.

Numbers(v) == [type |-> "list", of |-> "int", v |-> v]
Strs(v) == [type |-> "list", of |-> "str", v |-> v]

\* The object before __init__ has set any attribute. set tells how far
\* __init__ came: attributes it did not reach do not exist.
Bare ==
    [cls |-> "FaultInjection", set |-> "none", values |-> <<>>, original_values |-> <<>>,
     max_end |-> 0, start |-> 0, stop |-> 0, fault_direction |-> 0, fault_length |-> 0,
     has_drift_rate |-> FALSE, drift_rate |-> 0]

\* FaultInjection.__init__ : [err, printed, obj]. A ValueError raised inside
\* the try block is caught by its except clause and printed: no error leaves
\* the constructor, and the object stays as far as it came.
NewFaultInjection(values_, start, stop, increasing) ==
    LET caught(obj) == [err |-> "None", printed |-> "ValueError", obj |-> obj]
        o1 == [Bare EXCEPT !.set = "values", !.max_end = Len(values_.v),
                           !.values = values_.v, !.original_values = values_.v]
        o2 == [o1 EXCEPT !.set = "start",
                         !.start = IF start.none THEN 0 ELSE Min(start.v, o1.max_end - 1)]
        o3 == [o2 EXCEPT !.set = "stop",
                         !.stop = IF stop.none THEN o2.max_end
                                  ELSE Min(Max(o2.start, stop.v), o2.max_end)]
        o4 == [o3 EXCEPT !.set = "all",
                         !.fault_direction = IF increasing = 1 THEN 1 ELSE -1,
                         !.fault_length = o3.stop - o3.start]
    IN  IF values_.type # "list" \/ Len(values_.v) = 0 THEN caught(Bare)
        ELSE IF values_.of # "int" THEN caught(Bare)
        ELSE IF ~start.none /\ start.v < 0 THEN caught(o1)
        ELSE IF ~stop.none /\ stop.v < 0 THEN caught(o2)
        ELSE IF increasing \notin {0, 1} THEN caught(o3)
        ELSE [err |-> "None", printed |-> "None", obj |-> o4]

\* FaultInjection.inject_fault : self.values + ([0] * start + change_lst +
\* [0] * (max_end - stop)), which numpy refuses for arrays of different lengths.
FaultInjection_inject_fault(self, change_lst) ==
    LET fault_lst == [i \in 1..self.start |-> 0] \o change_lst
                        \o [i \in 1..(self.max_end - self.stop) |-> 0]
    IN  IF Len(fault_lst) # Len(self.values)
        THEN [err |-> "ValueError", obj |-> self]
        ELSE [err |-> "None",
              obj |-> [self EXCEPT !.values =
                          [i \in 1..Len(self.values) |-> self.values[i] + fault_lst[i]]]]

DriftChangeFromZero(fault_length_, drift_rate) ==
    [k \in 1..fault_length_ |-> (k - 1) * drift_rate]

\* list(np.array(range(1, self.fault_length + 1)) * self.drift_rate)
DriftChange(fault_length_, drift_rate) ==
    [k \in 1..fault_length_ |-> k * drift_rate]

\* FaultInjection.inject_drift : [err, obj]. drift_rate is [numeric, v]; the
\* ValueError for a rate that is not a number is printed, and the rate of an
\* earlier call, if any, is used.
inject_drift(self, drift_rate) ==
    LET rated == IF drift_rate.numeric
                 THEN [self EXCEPT !.has_drift_rate = TRUE, !.drift_rate = drift_rate.v]
                 ELSE self
    IN  IF self.set # "all" \/ ~rated.has_drift_rate
        THEN [err |-> "AttributeError", obj |-> rated]
        ELSE FaultInjection_inject_fault(rated,
                 DriftChange(rated.fault_length, rated.drift_rate))

\* FaultInjection.restore_values
restore_values(self) == [self EXCEPT !.values = self.original_values]

ValuesArgs == {Numbers(<<>>), Strs(<<0>>), Numbers(<<10, 10, 10, 10, 10>>),
               Numbers(<<10, 20, 30>>)}
StartArgs == {PyNone, Some(0), Some(1), Some(-1), Some(7)}
StopArgs == {PyNone, Some(0), Some(2), Some(4), Some(-1)}
IncreasingArgs == {0, 1, 2}
DriftRates == {[numeric |-> TRUE, v |-> 1], [numeric |-> TRUE, v |-> 2],
               [numeric |-> FALSE, v |-> 0]}

\* fi = FaultInjection(values, start, stop, increasing)
ConstructFaultInjection ==
    /\ fault_injection = NoneObj
    /\ \E values_ \in ValuesArgs, start \in StartArgs, stop \in StopArgs,
          increasing \in IncreasingArgs :
        LET r == NewFaultInjection(values_, start, stop, increasing)
        IN  /\ fault_injection' = r.obj
            /\ err' = r.err
            /\ fi_args' = [op |-> "new", values |-> values_, start |-> start,
                           stop |-> stop, increasing |-> increasing]
    /\ UNCHANGED <<dataframe_fault, ret, restored, generator, injection, frame_injection,
                   n_inject>>

\* fi.inject_drift(drift_rate)
InjectDrift ==
    /\ fault_injection # NoneObj
    /\ n_inject < MaxInjects
    /\ \E drift_rate \in DriftRates :
        LET r == inject_drift(fault_injection, drift_rate)
        IN  /\ fault_injection' = r.obj
            /\ err' = r.err
            /\ fi_args' = [op |-> "inject_drift", drift_rate |-> drift_rate]
    /\ n_inject' = n_inject + 1
    /\ UNCHANGED <<dataframe_fault, ret, restored, generator, injection, frame_injection>>

\* fi.restore_values()
RestoreValues ==
    /\ fault_injection # NoneObj
    /\ fault_injection.set = "all"
    /\ fault_injection.values # fault_injection.original_values
    /\ fault_injection' = restore_values(fault_injection)
    /\ err' = "None"
    /\ fi_args' = [op |-> "restore_values"]
    /\ UNCHANGED <<dataframe_fault, ret, restored, generator, injection, frame_injection,
                   n_inject>>

InitFaultInjection == Construct(Config(FALSE, 0, 0, TRUE, FALSE, "None", FALSE))

NextFaultInjection ==
    \/ ConstructFaultInjection
    \/ InjectDrift
    \/ RestoreValues

SpecFaultInjection == InitFaultInjection /\ [][NextFaultInjection]_vars

----------------------------------------------------------------------------
\* Properties.

\* Effective persist_state as the specification words it: the assignment's own
\* value when one was given, the DataFrameFault's otherwise.
EffectivePersist(a) ==
    \/ a.persist_state = "True"
    \/ a.persist_state = "None" /\ persist_state

Typed(c) == {i \in 1..Len(faults[c]) : faults[c][i].fault_type # NoType}

IsDrift(a) == a.fault_type = Class("DriftFault")
IsStuck(a) == a.fault_type = Class("StuckValueFault")

\* The last operation was a generate_faults call that returned a frame.
Returned == ret # NoDf

\* The generator counter with which assignment i of column c entered the current
\* or last generate_faults call: 0 when the call had to create the generator.
PriorAtStart(c, i) ==
    IF faults0[c][i].fault_obj = NoneObj THEN 0 ELSE faults0[c][i].fault_obj.prior

\* C2: at the start of every generate_faults call each assignment's stored
\* generator is discarded if and only if its effective persist_state is false;
\* nothing else of the assignments changes.
C2_ResetIffNotPersistent ==
    [][(pc = "idle" /\ pc' = "run") =>
        /\ DOMAIN faults' = DOMAIN faults
        /\ \A c \in DOMAIN faults :
            /\ Len(faults'[c]) = Len(faults[c])
            /\ \A i \in 1..Len(faults[c]) :
                faults'[c][i] =
                    [faults[c][i] EXCEPT !.fault_obj =
                        IF EffectivePersist(faults[c][i]) THEN @ ELSE NoneObj]]_vars

\* C2 witness: a second call has just started on a DataFrameFault with
\* persist_state true; column A's assignment (persist_state false) ran in the
\* first call and has lost its generator, column B's (no own value) kept it.
C2_Witness ==
    /\ pc = "run" /\ ri = 1 /\ ci = 1 /\ ai = 1
    /\ horizontal /\ persist_state
    /\ DOMAIN faults = {"A", "B"}
    /\ Len(faults["A"]) = 1 /\ Len(faults["B"]) = 1
    /\ faults["A"][1].persist_state = "False"
    /\ hist["A"][1].ok = 1
    /\ faults["A"][1].fault_obj = NoneObj
    /\ faults["B"][1].persist_state = "None"
    /\ faults["B"][1].fault_obj # NoneObj

\* The one assignment of column c that has a fault type, when there is just one
\* (the column's rows are then that assignment's outputs).
SingleTyped(c) == Cardinality(Typed(c)) = 1
TheTyped(c) == CHOOSE i \in Typed(c) : TRUE

\* The length the specification gives an assignment's outputs.
LengthOf(a) ==
    IF a.fault_length # 0 THEN a.fault_length
    ELSE IF fault_length # 0 THEN fault_length
    ELSE df_length

ScalarParam(a, k) == k \in DOMAIN a.params /\ ~a.params[k].list
ListParam(a, k) == k \in DOMAIN a.params /\ a.params[k].list
Continuous(a) == ScalarParam(a, "continuous") /\ a.params["continuous"].v[1]
ScalarRate(a) == a.params["drift_rate"].v[1]

\* The drift values (first + 1) * r, ..., (first + L) * r.
Segment(first, L, r) == [j \in 1..L |-> (first + j) * r]

\* Column c of the returned horizontal frame has df_length rows, row i (from 0)
\* being Row(i).
RowsAre(c, Row(_)) ==
    /\ Len(ret.data[c]) = df_length
    /\ \A i \in 0..(df_length - 1) : ret.data[c][i + 1] = Row(i)

\* C3: with effective persist_state true, the k-th generate_faults call of a
\* continuous DriftFault assignment (rate r, length L, horizontal, df_length n)
\* returns in row i the values ((k*n + i)*L + j + 1)*r, j = 0..L-1; k counts the
\* calls since the assignment was registered, either all of them or those that
\* returned.
C3_KthCall(c, k) ==
    LET a == faults[c][TheTyped(c)]
        L == LengthOf(a)
        Row(i) == Segment((k * df_length + i) * L, L, ScalarRate(a))
    IN  RowsAre(c, Row)

C3_WithoutAbortedCalls ==
    (Returned /\ horizontal) =>
        \A c \in DOMAIN faults :
            (/\ SingleTyped(c)
             /\ IsDrift(faults[c][TheTyped(c)])
             /\ ScalarParam(faults[c][TheTyped(c)], "drift_rate")
             /\ Continuous(faults[c][TheTyped(c)])
             /\ EffectivePersist(faults[c][TheTyped(c)])
             /\ hist[c][TheTyped(c)].bad = 0)
            => C3_KthCall(c, hist[c][TheTyped(c)].ok - 1)

\* C4: when a generate_faults call returns and no assignment has changed since
\* the previous call returned, every column whose assignments all have effective
\* persist_state false holds the same values as in the previous frame.
C4_Repeatable ==
    [][(/\ pc = "run" /\ pc' = "idle" /\ err' = "None"
        /\ \A c \in DOMAIN faults : \A i \in 1..Len(faults[c]) : hist[c][i].ok >= 1)
       => \A c \in DOMAIN faults :
            (\A i \in 1..Len(faults[c]) : ~EffectivePersist(faults[c][i]))
            => ret'.data[c] = df_final.data[c]]_vars

\* C4 witness: a continuous DriftFault with effective persist_state false has
\* gone through two returned calls of two rows or more.
C4_Witness ==
    /\ Returned /\ horizontal /\ df_length >= 2
    /\ \E c \in DOMAIN faults :
        /\ SingleTyped(c)
        /\ IsDrift(faults[c][TheTyped(c)])
        /\ Continuous(faults[c][TheTyped(c)])
        /\ ~EffectivePersist(faults[c][TheTyped(c)])
        /\ hist[c][TheTyped(c)].ok = 2

\* A DriftFault assignment with a scalar rate, alone in its column.
ScalarDriftAt(c) ==
    /\ SingleTyped(c)
    /\ IsDrift(faults[c][TheTyped(c)])
    /\ ScalarParam(faults[c][TheTyped(c)], "drift_rate")
    /\ ScalarParam(faults[c][TheTyped(c)], "continuous")

\* C5 as claimed: in every returned horizontal frame, persist_state set or not, a
\* continuous DriftFault (rate r, length L) has (i*L + j + 1)*r at position j of
\* row i, and a non-continuous one (j + 1)*r in every row.
C5_RowsCountFromZero ==
    (Returned /\ horizontal) =>
        \A c \in DOMAIN faults :
            ScalarDriftAt(c) =>
                LET a == faults[c][TheTyped(c)]
                    L == LengthOf(a)
                    Row(i) == IF Continuous(a) THEN Segment(i * L, L, ScalarRate(a))
                              ELSE Segment(0, L, ScalarRate(a))
                IN  RowsAre(c, Row)

\* C5 amended: the rows are successive invocations of one generator, counting
\* from the counter p with which the generator entered the call: a continuous
\* DriftFault has (p + i*L + j + 1)*r at position j of row i, a non-continuous
\* one (j + 1)*r; p is 0 whenever effective persist_state is false.
C5_RowsCountFromStart ==
    (Returned /\ horizontal) =>
        \A c \in DOMAIN faults :
            ScalarDriftAt(c) =>
                LET a == faults[c][TheTyped(c)]
                    L == LengthOf(a)
                    p == PriorAtStart(c, TheTyped(c))
                    Row(i) == IF Continuous(a) THEN Segment(p + i * L, L, ScalarRate(a))
                              ELSE Segment(0, L, ScalarRate(a))
                IN  /\ RowsAre(c, Row)
                    /\ ~EffectivePersist(a) => p = 0

\* C5 witness: a frame of two rows or more returned for a continuous DriftFault
\* whose effective persist_state is false.
C5_Witness ==
    /\ Returned /\ horizontal /\ df_length >= 2
    /\ \E c \in DOMAIN faults :
        /\ ScalarDriftAt(c)
        /\ Continuous(faults[c][TheTyped(c)])
        /\ ~EffectivePersist(faults[c][TheTyped(c)])

\* A continuous DriftFault assignment whose drift_rate is a list of df_length
\* rates (two or more), alone in its column.
PerRowDriftAt(c) ==
    /\ SingleTyped(c)
    /\ IsDrift(faults[c][TheTyped(c)])
    /\ ListParam(faults[c][TheTyped(c)], "drift_rate")
    /\ Len(faults[c][TheTyped(c)].params["drift_rate"].v) = df_length
    /\ df_length >= 2
    /\ Continuous(faults[c][TheTyped(c)])

\* C6 as claimed: with drift_rate the list r_0 .. r_(n-1), n = df_length, every
\* returned horizontal frame has (i*L + j + 1)*r_i at position j of row i.
C6_PerRowRatesFromZero ==
    (Returned /\ horizontal) =>
        \A c \in DOMAIN faults :
            PerRowDriftAt(c) =>
                LET a == faults[c][TheTyped(c)]
                    L == LengthOf(a)
                    Row(i) == Segment(i * L, L, a.params["drift_rate"].v[i + 1])
                IN  RowsAre(c, Row)

\* C6 amended: the instance is kept from row to row with only its attributes
\* overwritten, so the counter survives: position j of row i holds
\* (p + i*L + j + 1)*r_i, p being the counter with which the generator entered
\* the call (0 for a generator the call creates).
C6_PerRowRatesFromStart ==
    (Returned /\ horizontal) =>
        \A c \in DOMAIN faults :
            PerRowDriftAt(c) =>
                LET a == faults[c][TheTyped(c)]
                    L == LengthOf(a)
                    p == PriorAtStart(c, TheTyped(c))
                    Row(i) == Segment(p + i * L, L, a.params["drift_rate"].v[i + 1])
                IN  /\ RowsAre(c, Row)
                    /\ faults0[c][TheTyped(c)].fault_obj = NoneObj => p = 0

\* C6 witness: a frame returned for a per-row drift_rate list.
C6_Witness ==
    /\ Returned /\ horizontal
    /\ \E c \in DOMAIN faults : PerRowDriftAt(c)

\* The assignment the loops of _generate_faults are about to run, if any.
AtAssignment ==
    /\ InCell
    /\ ai <= Len(faults[col_names[ci]])
    /\ faults[col_names[ci]][ai].fault_type # NoType
Current == faults[col_names[ci]][ai]

\* The stuck value resolution gives row i, as the specification states it.
StuckValueOfRow(a, i) ==
    LET p == a.params["stuck_val"]
        m == Len(p.v)
    IN  IF ~p.list \/ m = 1 THEN p.v[1] ELSE p.v[Min(i, m - 1) + 1]

\* The parameter is one the specification resolves in horizontal mode.
Resolvable(a, k) ==
    \/ ScalarParam(a, k)
    \/ /\ ListParam(a, k)
       /\ \/ Len(a.params[k].v) = 1
          \/ /\ Len(a.params[k].v) >= 2
             /\ Len(a.params[k].v) <= df_length
             /\ Len(a.params[k].v) < df_length => a.repeat

\* C7: in horizontal mode the invocation for row i of a StuckValueFault runs
\* with the scalar itself, with the single element of a one-element list, or
\* with element min(i, m-1) of a list of length m, 2 <= m <= df_length (repeat
\* true when m < df_length): its output is that value, LengthOf times, and the
\* call goes on.
C7_HorizontalResolution ==
    [][(AtAssignment /\ horizontal /\ IsStuck(Current) /\ Resolvable(Current, "stuck_val")) =>
        /\ pc' = "run"
        /\ err' = "None"
        /\ row_components' =
              Append(row_components,
                     [j \in 1..LengthOf(Current) |-> StuckValueOfRow(Current, ri - 1)])]_vars

\* C7 witness: a frame of three rows returned for the list <<1, 2>> with repeat
\* true: row 0 is all 1, rows 1 and 2 are all 2.
C7_Witness ==
    /\ Returned /\ horizontal /\ df_length = 3
    /\ SingleTyped("A")
    /\ IsStuck(faults["A"][1])
    /\ faults["A"][1].params["stuck_val"] = List(<<1, 2>>)
    /\ faults["A"][1].repeat
    /\ ret.data["A"] = [i \in 1..3 |-> [j \in 1..LengthOf(faults["A"][1]) |-> Min(i, 2)]]

\* The assignment has a parameter the specification rejects.
Rejected(a) ==
    \E k \in DOMAIN a.params :
        /\ ListParam(a, k)
        /\ Len(a.params[k].v) >= 2
        /\ \/ Len(a.params[k].v) > df_length
           \/ Len(a.params[k].v) < df_length /\ ~a.repeat
           \/ Len(a.params[k].v) = df_length /\ ~horizontal

\* C8: an invocation of an assignment with a list parameter of length >= 2 that
\* is longer than df_length, or shorter than df_length with repeat false, or of
\* length df_length in vertical mode, raises ValueError, and generate_faults
\* ends there without a frame.
C8_ResolutionRejects ==
    [][(AtAssignment /\ Rejected(Current)) =>
        /\ pc' = "idle"
        /\ err' = "ValueError"
        /\ ret' = NoDf
        /\ df_final' = df_final]_vars

\* C8 witness: a vertical generate_faults call has raised ValueError on a list
\* of exactly df_length values.
C8_Witness ==
    /\ pc = "idle" /\ err = "ValueError" /\ ~horizontal /\ df_length >= 2
    /\ SingleTyped("A")
    /\ hist["A"][1].bad = 1
    /\ ListParam(faults["A"][1], "stuck_val")
    /\ Len(faults["A"][1].params["stuck_val"].v) = df_length

\* C10: a vertical call invokes each generator once and the column is that one
\* output, of the effective length: a DriftFault column is (p + j + 1)*r for
\* j in 0..L-1, p being 0 for a non-continuous generator and the counter at the
\* start of the call for a continuous one, whose counter, when kept, has
\* advanced by exactly L; a StuckValueFault column is its value L times.
C10_VerticalSingleInvocation ==
    (Returned /\ ~horizontal) =>
        \A c \in DOMAIN faults :
            (SingleTyped(c) /\ \A k \in DOMAIN faults[c][TheTyped(c)].params :
                                   ScalarParam(faults[c][TheTyped(c)], k)) =>
                LET a == faults[c][TheTyped(c)]
                    L == LengthOf(a)
                    p == PriorAtStart(c, TheTyped(c))
                IN  /\ IsDrift(a) =>
                        /\ ret.data[c] = Segment(IF Continuous(a) THEN p ELSE 0, L, ScalarRate(a))
                        /\ (Continuous(a) /\ a.fault_obj # NoneObj) => a.fault_obj.prior = p + L
                    /\ IsStuck(a) =>
                        ret.data[c] = [j \in 1..L |-> a.params["stuck_val"].v[1]]

\* C10 witness: vertical, no fault_length, df_length 3, a non-continuous
\* DriftFault of rate 2: the returned column is <<2, 4, 6>>.
C10_Witness ==
    /\ Returned /\ ~horizontal /\ fault_length = 0 /\ df_length = 3
    /\ SingleTyped("A")
    /\ IsDrift(faults["A"][1])
    /\ ~Continuous(faults["A"][1])
    /\ ret.data["A"] = <<2, 4, 6>>

RECURSIVE SeqSum(_)
SeqSum(s) == IF s = <<>> THEN 0 ELSE s[1] + SeqSum(Tail(s))

\* The sum over the arrays outs of their elements at position j.
Total(outs, j) == SeqSum([i \in 1..Len(outs) |-> outs[i][j]])

\* The value is the number num/k.
IsQuotient(x, num, k) == x.num * k = x.den * num

\* C9: when the loops close a row of a column with k assignments that have a
\* fault type, the k outputs being of one length: for k >= 2 the row appended to
\* the column is their elementwise sum (default mode) or their elementwise mean
\* over k (mode "mean"); for k = 1 it is the one output itself.
C9_RowCombination ==
    [][(InCell /\ ai > Len(faults[col_names[ci]])) =>
        LET c == col_names[ci]
            outs == SelectSeq(row_components, NonEmpty)
            k == Len(outs)
            row == col_outputs'[c][Len(col_outputs'[c])]
        IN  /\ k = Cardinality(Typed(c))
            /\ (k >= 1 /\ \A i \in 1..k : Len(outs[i]) = Len(outs[1])) =>
                /\ pc' = "run"
                /\ Len(col_outputs'[c]) = Len(col_outputs[c]) + 1
                /\ k = 1 => row = outs[1]
                /\ k >= 2 =>
                    /\ Len(row) = Len(outs[1])
                    /\ \A j \in 1..Len(outs[1]) :
                        IF combine_mode = "mean"
                        THEN IsQuotient(row[j], Total(outs, j), k)
                        ELSE row[j] = Total(outs, j)]_vars

\* C9 witness: multi_fault with mode "mean", column A holding the stuck values 1
\* and 2 and a drift of rate 3 after the empty slot: the returned rows are the
\* means <<(1+2+3)/3, (1+2+6)/3>> = <<2, 3>>.
C9_Witness ==
    /\ Returned /\ horizontal /\ multi_fault /\ combine_mode = "mean"
    /\ Cardinality(Typed("A")) = 3
    /\ \A i \in 1..df_length :
        ret.data["A"][i] = <<[num |-> 2, den |-> 1], [num |-> 3, den |-> 1]>>

\* The entries of xs with their generators taken out.
Registered(xs) == [i \in 1..Len(xs) |-> [xs[i] EXCEPT !.fault_obj = NoneObj]]

\* C1: every assign_fault call, for some arguments, leaves each column it names
\* with exactly the new entry when multi_fault is false, and with its former
\* list (the empty slot, for a new column) followed by the new entry when
\* multi_fault is true, and leaves every other column alone; no other step
\* adds, drops, replaces or reorders an assignment.
C1_LastWriteWinsOrAppend ==
    [][IF n_assign' # n_assign
       THEN \E in \in InputsMulti :
               /\ DOMAIN faults' = DOMAIN faults \cup {in.cols[i] : i \in 1..Len(in.cols)}
               /\ \A c \in DOMAIN faults' :
                    IF \E i \in 1..Len(in.cols) : in.cols[i] = c
                    THEN faults'[c] =
                            IF ~multi_fault THEN <<Entry(in)>>
                            ELSE Append(IF c \in DOMAIN faults THEN faults[c] ELSE <<EmptySlot>>,
                                        Entry(in))
                    ELSE faults'[c] = faults[c]
       ELSE /\ DOMAIN faults' = DOMAIN faults
            /\ \A c \in DOMAIN faults : Registered(faults'[c]) = Registered(faults[c])]_vars

\* C1 witness: after three registrations on column A, the last naming B too:
\* with multi_fault the list of A is the empty slot and the three entries in
\* order, and the new column B holds the empty slot and the third.
C1_Witness ==
    /\ multi_fault /\ n_assign = 3 /\ n_gen = 0
    /\ Len(faults["A"]) = 4
    /\ faults["A"][1] = EmptySlot
    /\ faults["A"][2].params = Stuck(Scalar(2))
    /\ faults["A"][3].params = Stuck(Scalar(1))
    /\ faults["A"][4].params = Stuck(Scalar(2))
    /\ "B" \in DOMAIN faults
    /\ faults["B"] = <<EmptySlot, faults["A"][4]>>

\* No assignment of any column has a fault type.
NoFault ==
    \A c \in DOMAIN faults : \A i \in 1..Len(faults[c]) : faults[c][i].fault_type = NoType

\* C11: a generate_faults call made when no column has a fault assigned raises
\* ValueError, returns nothing, and leaves df_final, df_extended, metadata and
\* every assignment (its stored generator included) as they were.
C11_NoFaultsRaisesAndKeeps ==
    [][(pc = "idle" /\ NoFault /\ n_gen' # n_gen) =>
        /\ err' = "ValueError"
        /\ ret' = NoDf
        /\ pc' = "idle"
        /\ df_final' = df_final
        /\ df_extended' = df_extended
        /\ metadata' = metadata
        /\ faults' = faults]_vars

\* C11 witness: after a completed generation the only fault was replaced by an
\* assignment without a fault type, and the next call raised: the frame and the
\* metadata of the first call are still there.
C11_Witness ==
    /\ NoFault /\ n_gen = 2 /\ err = "ValueError" /\ pc = "idle"
    /\ df_final # NoDf
    /\ metadata # NoMetadata

AssignedComponents ==
    UNION {{CompName(c, faults[c][i], i) : i \in Typed(c)} : c \in DOMAIN faults}

\* C15: the extended frame a call returns has exactly one column per assigned
\* fault component (column, fault type, assignment index) and no other.
C15_OneColumnPerComponent ==
    (Returned /\ include_individual_faults) =>
        DOMAIN ret.data = AssignedComponents

\* C16: every invocation of an assignment that has a fault type produces
\* LengthOf values (its own fault_length, else the DataFrameFault's, else
\* df_length) or raises; with none of the three set it raises, and no call
\* returns a frame for such an assignment.
C16_EffectiveLength ==
    [][/\ AtAssignment =>
            /\ LengthOf(Current) = 0 => (pc' = "idle" /\ err' # "None" /\ ret' = NoDf)
            /\ pc' = "run" =>
                Len(row_components'[Len(row_components')]) = LengthOf(Current)
       /\ ret' # NoDf =>
            \A c \in DOMAIN faults' : \A i \in 1..Len(faults'[c]) :
                faults'[c][i].fault_type # NoType => LengthOf(faults'[c][i]) # 0]_vars

\* C16 witness: fault_length 2 on the DataFrameFault, 1 on the assignment: the
\* returned rows of column A have one value.
C16_Witness ==
    /\ Returned /\ horizontal /\ ~include_individual_faults
    /\ fault_length = 2
    /\ SingleTyped("A")
    /\ faults["A"][TheTyped("A")].fault_length = 1
    /\ \A i \in 1..df_length : Len(ret.data["A"][i]) = 1

\* The class an assignment's fault type stands for.
ClassOf(ft) ==
    CASE ft.kind = "class" -> Ok(ft.cls)
      [] ft.kind = "instance" -> Ok(user_obj.cls)
      [] ft.kind = "str" -> _lookup_fault_class(ft.name)

\* C12: from_metadata(_build_metadata()) gives an instance with the same
\* col_names, horizontal, df_length, fault_length and, per column, the same
\* fault types and parameters, every generator None.
C12_RoundTrip ==
    [][restored' # restored =>
        /\ restored'.err = "None"
        /\ restored'.val.col_names = col_names
        /\ restored'.val.horizontal = horizontal
        /\ restored'.val.df_length = df_length
        /\ restored'.val.fault_length = fault_length
        /\ DOMAIN restored'.val.faults = DOMAIN faults
        /\ \A c \in DOMAIN faults :
            /\ Len(restored'.val.faults[c]) = Len(faults[c])
            /\ \A i \in 1..Len(faults[c]) :
                /\ restored'.val.faults[c][i].fault_type = MetaTypeName(faults[c][i].fault_type)
                /\ restored'.val.faults[c][i].params = faults[c][i].params
                /\ restored'.val.faults[c][i].fault_obj = NoneObj]_vars

\* C13: in the metadata a completed call builds, the fault type recorded for
\* an assignment is the registry string as given, or the name of the class
\* (assigned as a class or as a ready instance), and resolves in the registry
\* to the assignment's class.
C13_MetadataNamesFaultType ==
    Returned =>
        \A c \in DOMAIN faults : \A i \in Typed(c) :
            LET ft == faults[c][i].fault_type
                name == metadata.faults[c][i].fault_type
            IN  /\ ft.kind = "str" => name = ft.name
                /\ ft.kind # "str" => name = ClassOf(ft).val
                /\ _lookup_fault_class(name) = ClassOf(ft)

\* C17: no step of generate_faults changes the caller's ready instance.
C17_CallerInstanceUnchanged ==
    [][user_obj' = user_obj]_vars

\* C17 witness: a persisted assignment of the caller's instance with a per-row
\* drift_rate list has run in two calls: its own generator has counted on and
\* had its rate overwritten, the caller's instance has its counter 0 and rate 2.
C17_Witness ==
    /\ Returned /\ n_gen = 2 /\ persist_state /\ horizontal /\ df_length = 2
    /\ faults["A"][1].fault_type = Ready
    /\ ListParam(faults["A"][1], "drift_rate")
    /\ hist["A"][1].ok = 2
    /\ faults["A"][1].fault_obj.prior = 8
    /\ faults["A"][1].fault_obj.drift_rate = 3
    /\ user_obj.prior = 0 /\ user_obj.drift_rate = 2

\* A length the generators accept: a positive integer.
PositiveInt(length) == length.int /\ length.n >= 1

\* C18: a call of length n of a continuous DriftFault with rate r returns
\* (P + j) * r for j = 1..n, P the sum of the lengths of the calls since the
\* construction or the last reset(); a non-continuous one returns j * r and
\* its prior never changes.
C18_DriftContinuesFromPrior ==
    [][fault.cls = "DriftFault" =>
        /\ (n_ops' # n_ops /\ last_op'.op = "call" /\ err' = "None") =>
            LET n == last_op'.length.n
                P == IF fault.continuous THEN since_reset ELSE 0
            IN  values'.v = [j \in 1..n |-> (P + j) * fault.drift_rate]
        /\ ~fault.continuous => (fault.prior = 0 /\ fault'.prior = 0)]_vars

\* C18 witness: rate 3, continuous; a call, a reset, a call of length 2 and
\* another of length 2, which returned (2 + 1) * 3 and (2 + 2) * 3.
C18_Witness ==
    /\ fault.cls = "DriftFault" /\ fault.continuous /\ fault.drift_rate = 3
    /\ n_ops = 4 /\ since_reset = 4
    /\ last_op.op = "call" /\ last_op.length = PyInt(2)
    /\ values.v = <<9, 12>>

\* C19: a call of any generator with a length that is zero, negative or not an
\* integer raises ValueError and leaves the generator (fault_values,
\* fault_length, prior) as it was.
C19_BadLengthRejectedFirst ==
    [][(n_ops' # n_ops /\ last_op'.op = "call" /\ ~PositiveInt(last_op'.length)) =>
        /\ err' = "ValueError"
        /\ fault' = fault]_vars

\* C19 witness: a continuous DriftFault that has produced two values was
\* called with the float 2.0: the call raised, the values and the counter stay.
C19_Witness ==
    /\ fault.cls = "DriftFault" /\ fault.continuous
    /\ last_op.op = "call" /\ last_op.length = PyFloat(2)
    /\ err = "ValueError"
    /\ fault.prior = 2 /\ fault.fault_length = 2
    /\ fault.fault_values = Array(<<2, 4>>)

\* The positions (from 1) of the window x[s:e] of an array of length n.
WindowOf(s, e, n) ==
    LET from == IF s < 0 THEN s + n ELSE s
        to == IF e < 0 THEN e + n ELSE e
    IN  {k \in 1..n : from < k /\ k <= to}

\* C20: the array inject_fault returns equals x outside the window x[s:e] and
\* fault(x[s:e]) inside it, and the array the caller passed is as it was.
C20_InjectsWindowOnly ==
    (passed_x # NoValues /\ err = "None") =>
        LET x == passed_x.v
            w == WindowOf(injector.start, injector.stop, Len(x))
            first == CHOOSE k \in w : \A m \in w : k <= m
        IN  /\ Len(injected.v) = Len(x)
            /\ \A k \in 1..Len(x) \ w : injected.v[k] = x[k]
            /\ \A k \in w :
                injected.v[k] = IF injector.fault = AddOneFault THEN x[k] + 1 ELSE x[k]
            /\ w # {} =>
                [k \in 1..Cardinality(w) |-> injected.v[first + k - 1]]
                    = Apply(injector.fault, [k \in 1..Cardinality(w) |-> x[first + k - 1]]).val
            /\ caller_x = passed_x

\* C20 witness: AddOneFault with the default start 0 and stop -1 on an array
\* of three values: the first two are raised, the last and the caller's array
\* are not.
C20_Witness ==
    /\ injector = NewInjector(AddOneFault, <<>>)
    /\ passed_x = Array(<<10, 20, 10>>)
    /\ err = "None"
    /\ injected = Array(<<11, 21, 10>>)
    /\ caller_x = Array(<<10, 20, 10>>)

\* A step that is an inject_faults call, and the call's arguments as the
\* claims name them.
InjectStep ==
    /\ df_injector # NoneObj
    /\ n_inject' = n_inject + 1
    /\ inject_args'.op = "inject_faults"
ArgStart == IF inject_args'.start.none THEN 0 ELSE inject_args'.start.v
ArgStop == IF inject_args'.stop.none THEN Rows(df_injector.df) ELSE inject_args'.stop.v
ArgColumns ==
    IF inject_args'.columns_to_inject.none THEN DOMAIN df_injector.df.data
    ELSE {inject_args'.columns_to_inject.v[i] :
            i \in 1..Len(inject_args'.columns_to_inject.v)}
ArgMapped(c) ==
    IF inject_args'.column_map.none THEN c
    ELSE IF c \in DOMAIN inject_args'.column_map.v THEN inject_args'.column_map.v[c]
    ELSE c

\* C21: inject_faults over [start, stop) leaves original_df, every column not
\* injected and every row outside the range as they were; when it returns,
\* row start + k of an injected column is row k of the mapped faulty column
\* (replace), or its value before the call plus that row (not replace).
C21_InjectsRowRangeOnly ==
    [][InjectStep =>
        /\ df_injector'.original_df = df_injector.original_df
        /\ df_injector'.df.columns = df_injector.df.columns
        /\ \A c \in DOMAIN df_injector.df.data :
            /\ Len(df_injector'.df.data[c]) = Len(df_injector.df.data[c])
            /\ \A r \in 1..Len(df_injector.df.data[c]) :
                (c \notin ArgColumns \/ r <= ArgStart \/ r > ArgStop) =>
                    df_injector'.df.data[c][r] = df_injector.df.data[c][r]
        /\ err' = "None" =>
            /\ inject_ret' = df_injector'.df
            /\ \A c \in ArgColumns : \A k \in 1..(ArgStop - ArgStart) :
                LET old == df_injector.df.data[c][ArgStart + k].v
                    flt == inject_args'.faulty_df.data[ArgMapped(c)][k].v
                IN  df_injector'.df.data[c][ArgStart + k].v =
                        IF inject_args'.replace THEN flt
                        ELSE [j \in 1..Len(old) |-> old[j] + flt[j]]]_vars

\* C21 witness: a frame of numbers; row 1 of column A was replaced by 10 and
\* then, in a second call without replace, raised by 10 more. Rows 0 and 2,
\* column B and original_df are as at the start.
C21_Witness ==
    /\ df_injector # NoneObj
    /\ n_inject = 2 /\ err = "None"
    /\ inject_args.op = "inject_faults" /\ ~inject_args.replace
    /\ inject_args.start = Some(1) /\ inject_args.stop = Some(2)
    /\ inject_args.columns_to_inject = Some(<<"A">>)
    /\ df_injector.original_df.data["A"] = Num(<<1, 2, 3>>)
    /\ df_injector.df.data["A"] = Num(<<1, 20, 3>>)
    /\ df_injector.df.data["B"] = Num(<<4, 5, 6>>)

\* The conditions under which inject_faults is to raise.
OrientationDiffers ==
    _is_horizontal(df_injector.original_df) # _is_horizontal(inject_args'.faulty_df)
RangeInvalid ==
    ~(0 <= ArgStart /\ ArgStart <= ArgStop /\ ArgStop <= Rows(df_injector.df))
ColumnMissing ==
    \E c \in ArgColumns :
        \/ c \notin DOMAIN df_injector.df.data
        \/ ArgMapped(c) \notin DOMAIN inject_args'.faulty_df.data
LengthDiffers ==
    \E c \in ArgColumns :
        /\ ArgMapped(c) \in DOMAIN inject_args'.faulty_df.data
        /\ Len(inject_args'.faulty_df.data[ArgMapped(c)]) # ArgStop - ArgStart
ShapeDiffers ==
    /\ df_injector.horizontal
    /\ \E c \in ArgColumns \cap DOMAIN df_injector.df.data :
        /\ ArgMapped(c) \in DOMAIN inject_args'.faulty_df.data
        /\ \E k \in 1..(ArgStop - ArgStart) :
            /\ ArgStart >= 0 /\ ArgStart + k <= Rows(df_injector.df)
            /\ k <= Len(inject_args'.faulty_df.data[ArgMapped(c)])
            /\ Len(df_injector.df.data[c][ArgStart + k].v)
                  # Len(inject_args'.faulty_df.data[ArgMapped(c)][k].v)

\* C22: inject_faults raises, and returns no frame, when the orientations
\* differ (TypeError), when the range is invalid, when a mapped faulty column
\* has not stop - start rows, when a row's array shape differs in horizontal
\* mode (ValueError, orientation and columns being right), or when a mapped
\* column is missing from either frame.
C22_InjectFaultsRaises ==
    [][InjectStep =>
        /\ OrientationDiffers => err' = "TypeError"
        /\ (RangeInvalid \/ ColumnMissing \/ LengthDiffers \/ ShapeDiffers) =>
                err' # "None"
        /\ (~OrientationDiffers /\ ~ColumnMissing
                /\ (RangeInvalid \/ LengthDiffers \/ ShapeDiffers)) =>
                err' = "ValueError"
        /\ err' # "None" => inject_ret' = NoDf]_vars

\* C22 witness: a frame of two rows offered for the one-row range [1, 2) of a
\* frame of numbers: ValueError, nothing returned.
C22_Witness ==
    /\ df_injector # NoneObj /\ ~df_injector.horizontal
    /\ inject_args.op = "inject_faults"
    /\ inject_args.start = Some(1) /\ inject_args.stop = Some(2)
    /\ Rows(inject_args.faulty_df) = 2
    /\ ~_is_horizontal(inject_args.faulty_df)
    /\ err = "ValueError"
    /\ inject_ret = NoDf

\* C26: an inject_faults call that raises leaves the working frame df as it
\* was before the call.
C26_InjectFaultsAllOrNothing ==
    [][(InjectStep /\ err' # "None") => df_injector'.df = df_injector.df]_vars

\* C23: constructing a FaultInjection with an empty list, or with a list whose
\* elements are not numbers, raises an error.
C23_InvalidValuesRaise ==
    (/\ fi_args.op = "new"
     /\ (Len(fi_args.values.v) = 0 \/ fi_args.values.of # "int")) =>
        err # "None"

\* The drift inject_drift adds at position i (from 1) of the values, the
\* window being the positions start + 1 .. stop: the original statement,
\* (i - s) * d with i and s counted from 0, and the amended one.
DriftedFromZero(obj, i, d) ==
    IF obj.start < i /\ i <= obj.stop THEN (i - 1 - obj.start) * d ELSE 0
DriftedFromOne(obj, i, d) ==
    IF obj.start < i /\ i <= obj.stop THEN (i - obj.start) * d ELSE 0

\* A step that is an inject_drift call with a number d as rate, on an object
\* whose construction was completed.
DriftStep ==
    /\ fault_injection # NoneObj
    /\ fault_injection.set = "all"
    /\ n_inject' = n_inject + 1
    /\ fi_args'.op = "inject_drift"
    /\ fi_args'.drift_rate.numeric

Consistent(obj) ==
    \/ obj.fault_values = NoValues /\ obj.fault_length = 0
    \/ /\ obj.fault_values.type \in {"list", "ndarray"}
       /\ obj.fault_length = Len(obj.fault_values.v)
       /\ obj.fault_length >= 1

\* C25: after any construction, call or update_fault of a fault object,
\* fault_values and fault_length are both None or fault_length is the length
\* of fault_values and at least 1; an update_fault with something that is not
\* a list or an array, or that is empty, raises and leaves both as they were.
C25_ValuesAndLengthAgree ==
    [][/\ fault' # NoneObj => Consistent(fault')
       /\ (/\ n_ops' # n_ops
           /\ last_op'.op = "update"
           /\ \/ last_op'.fault_values.type \notin {"list", "ndarray"}
              \/ Len(last_op'.fault_values.v) = 0) =>
            /\ err' = "ValueError"
            /\ fault'.fault_values = fault.fault_values
            /\ fault'.fault_length = fault.fault_length]_vars

\* C25 witness: a BaseFault constructed with the list [7, 8] was called for a
\* list of length 1 and then refused the update with an empty list.
C25_Witness ==
    /\ fault # NoneObj
    /\ fault.cls = "BaseFault"
    /\ n_ops = 3
    /\ last_op = [op |-> "update", fault_values |-> PyList(<<>>)]
    /\ err = "ValueError"
    /\ fault.fault_values = PyList(<<0>>) /\ fault.fault_length = 1

\* A step in which generate_faults raises after it has entered its loops.
GenerateAborts == pc = "run" /\ pc' = "idle" /\ err' # "None"

\* C27: when generate_faults raises part-way, df_final, df_extended and the
\* metadata are as before the call, and the counter of every generator that
\* was persisted before the call is where it was when the call began.
C27_AbortLeavesStateAsBefore ==
    [][GenerateAborts =>
        /\ results' = results
        /\ \A c \in DOMAIN faults0 : \A i \in 1..Len(faults0[c]) :
            (Persist(faults0[c][i]) /\ faults0[c][i].fault_obj # NoneObj) =>
                faults'[c][i].fault_obj.prior = faults0[c][i].fault_obj.prior]_vars

\* A step that is an assign_fault call.
AssignStep == n_assign' = n_assign + 1

\* A step that is one generator invocation: the assignment it runs, and
\* whether the assignment is a continuous drift with one rate for all rows.
RunStep == InCell /\ ai <= Len(faults[col_names[ci]])
Running == faults[col_names[ci]][ai]
ContinuousDrift(a) ==
    \/ /\ a.fault_type = Class("DriftFault")
       /\ ~a.params["drift_rate"].list
       /\ a.params["continuous"] = Scalar(TRUE)
    \/ a.fault_type = Ready /\ a.params = NoParams
RateOf(a) ==
    IF a.fault_type = Ready THEN user_obj.drift_rate ELSE a.params["drift_rate"].v[1]

\* C28: assign_fault gives the new assignment no generator instance. Without
\* multi_fault the new assignment is the column's only one, and the first
\* invocation of a continuous drift after it returns 1*r, 2*r, ...; with
\* multi_fault the column's earlier assignments, their instances included,
\* stay as they are.
C28_AssignStartsFresh ==
    [][/\ AssignStep =>
            \A c \in DOMAIN faults' :
                \/ c \in DOMAIN faults /\ faults'[c] = faults[c]
                \/ /\ faults'[c][Len(faults'[c])].fault_obj = NoneObj
                   /\ IF multi_fault
                      THEN SubSeq(faults'[c], 1, Len(faults'[c]) - 1) =
                              IF c \in DOMAIN faults THEN faults[c] ELSE <<EmptySlot>>
                      ELSE Len(faults'[c]) = 1
       /\ (/\ RunStep /\ ~multi_fault /\ ri = 1
           /\ hist[col_names[ci]][ai] = NewHist
           /\ Running.fault_type = Class("DriftFault")
           /\ ContinuousDrift(Running)) =>
            /\ err' = "None"
            /\ row_components'[ai] =
                  [j \in 1..EffLength(Running) |-> j * RateOf(Running)]]_vars

\* C28 witness: persist_state, no multi_fault, vertical: columns A and B were
\* given a continuous drift of rate 2 and generated, A was given one of rate 3
\* and the frame generated again: A restarted with 3, 6, B went on with 6, 8.
C28_Witness ==
    /\ pc = "idle" /\ err = "None"
    /\ persist_state /\ ~multi_fault /\ ~horizontal
    /\ n_assign = 2 /\ n_gen = 2
    /\ hist["A"][1] = [ok |-> 1, bad |-> 0]
    /\ faults["A"][1].fault_obj # NoneObj
    /\ faults["A"][1].fault_obj.drift_rate = 3
    /\ faults["A"][1].fault_obj.prior = 2
    /\ DOMAIN df_final.data = {"A", "B"}
    /\ df_final.data["A"] = <<3, 6>>
    /\ df_final.data["B"] = <<6, 8>>

\* C30: every invocation of a continuous drift continues from the counter of
\* the instance stored in its own assignment (from 0 when there is none) and
\* changes no other assignment and not the caller's instance, also when one
\* assign_fault call gave the same specification to two columns.
C30_ColumnsHaveOwnInstances ==
    [][(RunStep /\ ContinuousDrift(Running) /\ err' = "None") =>
        LET a == Running
            col == col_names[ci]
            P == IF a.fault_obj = NoneObj THEN 0 ELSE a.fault_obj.prior
        IN  /\ row_components'[ai] =
                  [j \in 1..EffLength(a) |-> (P + j) * RateOf(a)]
            /\ \A c \in DOMAIN faults : \A i \in 1..Len(faults[c]) :
                    <<c, i>> # <<col, ai>> => faults'[c][i] = faults[c][i]
            /\ user_obj' = user_obj]_vars

\* C30 witness: horizontal, two rows of length 2: the caller's ready instance
\* was assigned to A and B in one call and generated once; each column's
\* instance has counted its own 4 values, the caller's none.
C30_Witness ==
    /\ pc = "idle" /\ err = "None"
    /\ horizontal /\ df_length = 2 /\ ~multi_fault
    /\ n_assign = 1 /\ n_gen = 1
    /\ "B" \in DOMAIN faults
    /\ faults["A"][1].fault_type = Ready /\ faults["B"][1].fault_type = Ready
    /\ faults["A"][1].fault_obj # NoneObj /\ faults["B"][1].fault_obj # NoneObj
    /\ faults["A"][1].fault_obj.prior = 4 /\ faults["B"][1].fault_obj.prior = 4
    /\ faults["A"][1].fault_obj.id = "own" /\ faults["B"][1].fault_obj.id = "own"
    /\ user_obj.prior = 0
    /\ df_final.data["B"] = <<<<2, 4>>, <<6, 8>>>>

\* Column A of col_names has no fault assigned, and column B has one fault,
\* whose parameters and length are valid.
OnlyBAssigned ==
    /\ DOMAIN faults = {"A", "B"}
    /\ Typed("A") = {}
    /\ SingleTyped("B")
    /\ \A i \in Typed("B") : EffLength(faults["B"][i]) > 0
    /\ horizontal => df_length > 0

\* C29: a column of col_names without a fault does not prevent generation:
\* when another column has a valid fault, generate_faults completes, in
\* horizontal and in vertical mode.
C29_UnassignedColumnIsNoObstacle ==
    [][(pc = "run" /\ pc' = "idle" /\ OnlyBAssigned) => err' = "None"]_vars

====
